---------------------------- MODULE Spec2Model ----------------------------
(***************************************************************************)
(* State-machine model of the ladder-filter family of gaialive/TR123e.     *)
(*                                                                         *)
(* Numbers.  The filters compute in float / double.  A dimensionless float *)
(* value v is modelled by the integer v * Scale (four decimal places),     *)
(* products and quotients are truncated toward zero at that resolution.    *)
(* Frequencies and sample rates are whole numbers of Hz.  Arguments are    *)
(* finite numbers (section 3 of the specification scopes its invariants to *)
(* "normal (bounded, finite) input"); NaN and infinities are not modelled. *)
(* The integer backend (MoogLadderFilterFixedPoint) is modelled with its   *)
(* own C++ int arithmetic, not with Scale.                                 *)
(***************************************************************************)
EXTENDS Integers, Sequences, FiniteSets, TLC

(***************************************************************************)
(* unit names the filter class the program has instantiated; each class    *)
(* has its object (zdf, ...) and the log of the calls made on it.          *)
(***************************************************************************)
VARIABLES unit, zdf, zdfLog, dz, dzLog, sc, simd, nlLog, bl, blLog, fx, fxLog,
          mf, mfLog, mh, mhLog, vp, vpLog, pf, pfLog, pp, ppLog, rr, rrLog,
          rd, rdLog

vars == <<unit, zdf, zdfLog, dz, dzLog, sc, simd, nlLog, bl, blLog, fx, fxLog,
          mf, mfLog, mh, mhLog, vp, vpLog, pf, pfLog, pp, ppLog, rr, rrLog,
          rd, rdLog>>

\* the variables of the control classes (velocity parser, portamento filter and
\* player, resonance ramp) and of the audio callback
controlVars == <<vp, vpLog, pf, pfLog, pp, ppLog, rr, rrLog, rd, rdLog>>

\* the variables of the filter classes and of the MIDI handler
filterVars == <<zdf, zdfLog, dz, dzLog, sc, simd, nlLog, bl, blLog, fx, fxLog,
                mf, mfLog, mh, mhLog>>

(***************************************************************************)
(* Bounds of the model.                                                    *)
(***************************************************************************)
\* process() calls made on one ZDF filter instance (either ZDF class)
ZdfMaxSamples == 2

\* process() calls made on the scalar / SIMD pair
NlMaxSamples == 2

\* process() calls made on one bilinear-transform filter instance
BlMaxSamples == 2

\* process() calls made on one fixed-point filter instance
FxMaxSamples == 3

(***************************************************************************)
(* Float arithmetic at resolution 1/Scale.                                 *)
(***************************************************************************)
Scale == 10^4

Abs(x) == IF x < 0 THEN -x ELSE x

Sgn(x) == IF x < 0 THEN -1 ELSE 1

\* a * b for two scaled values (split so that no partial product leaves 32 bits)
Mul(a, b) ==
    LET aq == Abs(a) \div Scale
        ar == Abs(a) % Scale
        bq == Abs(b) \div Scale
        br == Abs(b) % Scale
    IN  Sgn(a) * Sgn(b) *
          (aq * bq * Scale + aq * br + ar * bq + ((ar * br) \div Scale))

\* a / b for two scaled values, b # 0
Div(a, b) ==
    LET q == Abs(a) \div Abs(b)
        r == Abs(a) % Abs(b)
    IN  Sgn(a) * Sgn(b) * (q * Scale + ((r * Scale) \div Abs(b)))

\* an integer quotient n / d truncated toward zero, as C++ int division
IDiv(n, d) == Sgn(n) * Sgn(d) * (Abs(n) \div Abs(d))

\* M_PI
PiS == 31416

\* one Horner factor 1 - x2 * inner / k of the sine and cosine series
Horner(x2, k, inner) == Scale - IDiv(Mul(x2, inner), k)

SinS(x) ==
    LET x2 == Mul(x, x)
    IN  Mul(x, Horner(x2, 6, Horner(x2, 20, Horner(x2, 42,
               Horner(x2, 72, Horner(x2, 110, Scale))))))

CosS(x) ==
    LET x2 == Mul(x, x)
    IN  Horner(x2, 2, Horner(x2, 12, Horner(x2, 30,
               Horner(x2, 56, Horner(x2, 90, Scale)))))

\* tanf(x) for 0 <= x < pi/2
tanf(x) == Div(SinS(x), CosS(x))

\* one level x2 / (k + deeper) of Lambert's continued fraction for tanh
RECURSIVE TanhCF(_, _)
TanhCF(x2, k) ==
    IF k > 21 THEN 0 ELSE Div(x2, k * Scale + TanhCF(x2, k + 2))

\* tanhf(x): odd, strictly inside (-1, 1), saturating
tanhf(x) ==
    IF Abs(x) >= 5 * Scale THEN Sgn(x) * (Scale - 1)
    ELSE Div(x, Scale + TanhCF(Mul(x, x), 3))

(***************************************************************************)
(* ZDFMoogLadderFilter (zdf_moogladder_v2): the production ZDF filter.     *)
(* zdf is the object: sampleRate, resonance, feedbackGain, G, drive, mode, *)
(* stage[4], z[4].                                                         *)
(***************************************************************************)
LP24 == 0
BP12 == 1
HP24 == 2

Zero4 == <<0, 0, 0, 0>>

\* mutant: the upper bound is not enforced
clamp_float_noUpper(x, minVal, maxVal) == IF x < minVal THEN minVal ELSE x

clamp_float(x, minVal, maxVal) ==
    IF x < minVal THEN minVal ELSE IF x > maxVal THEN maxVal ELSE x

\* mutant: the lower bound is 5 Hz
ZDF_clampedCutoff_min5(f, cutoffHz) ==
    IF cutoffHz < 5 THEN 5
    ELSE IF cutoffHz > IDiv(45 * f.sampleRate, 100) THEN IDiv(45 * f.sampleRate, 100)
    ELSE cutoffHz

\* the local cutoffHz of setCutoff after its clamp: sampleRate * 0.45f above
ZDF_clampedCutoff(f, cutoffHz) ==
    clamp_float(cutoffHz, 20, IDiv(45 * f.sampleRate, 100))

\* G = tanf(M_PI * cutoffHz / sampleRate)
ZDF_warp(cutoffHz, sampleRate) == tanf(IDiv(PiS * cutoffHz, sampleRate))

ZDF_setCutoff(f, cutoffHz) ==
    [f EXCEPT !.G = ZDF_warp(ZDF_clampedCutoff(f, cutoffHz), f.sampleRate),
              !.feedbackGain = Mul(f.resonance, 4 * Scale)]

\* mutant: feedbackGain is left for the next setCutoff to recompute
ZDF_setResonance_lazy(f, r) == [f EXCEPT !.resonance = IF r < 0 THEN 0 ELSE IF r > Scale THEN Scale ELSE r]

ZDF_setResonance(f, r) ==
    LET res == clamp_float(r, 0, Scale)
    IN  [f EXCEPT !.resonance = res, !.feedbackGain = Mul(res, 4 * Scale)]

\* mutant: an invalid mode is clamped into range instead of ignored
ZDF_setMode_clamping(f, newMode) ==
    [f EXCEPT !.mode = IF newMode < 0 THEN 0 ELSE IF newMode > 2 THEN 2 ELSE newMode]

ZDF_setMode(f, newMode) ==
    IF newMode >= 0 /\ newMode <= 2 THEN [f EXCEPT !.mode = newMode] ELSE f

ZDF_setDrive(f, driveAmount) ==
    [f EXCEPT !.drive = clamp_float(driveAmount, 0, Scale)]

\* mutant: the integrator registers are not cleared
ZDF_reset_stagesOnly(f) == [f EXCEPT !.stage = <<0, 0, 0, 0>>]

ZDF_reset(f) == [f EXCEPT !.stage = Zero4, !.z = Zero4]

\* the feedback sample: stage[3], through tanhf when drive > 0.001f
ZDF_feedback(f) ==
    IF f.drive > 10 THEN tanhf(Mul(f.stage[4], f.drive)) ELSE f.stage[4]

\* one pass of the stage loop: [stage, z] after stages 1..i, and the running u
RECURSIVE ZDF_stages(_, _, _)
ZDF_stages(f, u0, i) ==
    IF i = 0 THEN [stage |-> f.stage, z |-> f.z, u |-> u0]
    ELSE LET p == ZDF_stages(f, u0, i - 1)
             v == Div(p.u - p.z[i], Scale + f.G)
             s == v + p.z[i]
         IN  [stage |-> [p.stage EXCEPT ![i] = s],
              z |-> [p.z EXCEPT ![i] = s + v],
              u |-> s]

\* the output the switch on mode selects
ZDF_output(mode, stage, input) ==
    CASE mode = LP24 -> stage[4]
      [] mode = BP12 -> stage[3] - stage[4]
      [] mode = HP24 -> input - stage[4]
      [] OTHER -> stage[4]

\* a process() that keeps the selected output as the stage-4 register, so
\* that the stored state would follow the mode
ZDF_process_storingOutput(f, input) ==
    LET u == input - Mul(f.feedbackGain, ZDF_feedback(f))
        p == ZDF_stages(f, u, 4)
        o == ZDF_output(f.mode, p.stage, input)
    IN  [filter |-> [f EXCEPT !.stage = [p.stage EXCEPT ![4] = o], !.z = p.z],
         out |-> o]

\* process(input): the filter after the call, and the value returned
ZDF_process(f, input) ==
    LET u == input - Mul(f.feedbackGain, ZDF_feedback(f))
        p == ZDF_stages(f, u, 4)
    IN  [filter |-> [f EXCEPT !.stage = p.stage, !.z = p.z],
         out |-> ZDF_output(f.mode, p.stage, input)]

\* the constructor: members left unset by the initialiser list hold the
\* indeterminate value u until a setter writes them
ZDF_construct(sampleRate, u) ==
    LET raw == [sampleRate |-> sampleRate, resonance |-> u, feedbackGain |-> u,
                G |-> u, drive |-> Scale, mode |-> LP24, stage |-> <<u, u, u, u>>,
                z |-> <<u, u, u, u>>]
    IN  ZDF_setResonance(ZDF_setCutoff(ZDF_reset(raw), 1000), Scale \div 2)


(***************************************************************************)
(* MoogLadderFilterScalar (DEV/MoogLadderFilterScalar.cpp): the nonlinear  *)
(* dual-iteration model.  sc is the object: s1..s8, slim, previn, rc, fc,  *)
(* mode, sr.  expr1 and expr2, which setSampleRate writes and no method    *)
(* reads, are not part of the state.  fc is the value setParams stores     *)
(* from its cutoffHz argument, as a scaled number.                         *)
(***************************************************************************)
Max(a, b) == IF a < b THEN b ELSE a

Min(a, b) == IF b < a THEN b ELSE a

\* clamp of MoogLadderFilterBase.h: std::min(std::max(x, a), b)
clamp(x, a, b) == Min(Max(x, a), b)

\* fixdenorm: magnitudes under 1e-30f, which is under one step of the
\* resolution, become 0
fixdenorm(val) == IF Abs(val) < 1 THEN 0 ELSE val

\* fixdenorm on a signal value.  Unit "nl-quiet" runs the filter on signals
\* near the guard threshold: there a signal value v stands for v * 1e-32, so
\* that 1e-30f is QuietThreshold steps (coefficients keep the step 1/Scale,
\* and the squares of such signals are 0, as they are in float)
QuietThreshold == 100

SignalThreshold == IF unit = "nl-quiet" THEN QuietThreshold ELSE 1

fixdenorm_signal(val) == IF Abs(val) < SignalThreshold THEN 0 ELSE val

\* mutant: the saturation register is not cleared
Scalar_reset_keepSlim(f) ==
    [f EXCEPT !.s1 = 0, !.s2 = 0, !.s3 = 0, !.s4 = 0, !.s5 = 0, !.s6 = 0,
              !.s7 = 0, !.s8 = 0, !.previn = 0, !.rc = 0, !.fc = Scale,
              !.mode = 0]

Scalar_reset(f) ==
    [f EXCEPT !.s1 = 0, !.s2 = 0, !.s3 = 0, !.s4 = 0, !.s5 = 0, !.s6 = 0,
              !.s7 = 0, !.s8 = 0, !.slim = 0, !.previn = 0, !.rc = 0,
              !.fc = Scale, !.mode = 0]

Scalar_setSampleRate(f, sr_) == [f EXCEPT !.sr = sr_]

Scalar_setParams(f, cutoffHz, resonanceVal, modeSel) ==
    [f EXCEPT !.mode = modeSel, !.rc = clamp(resonanceVal, 0, Scale),
              !.fc = fixdenorm(cutoffHz)]

Scalar_construct(sampleRate, u) ==
    LET raw == [s1 |-> u, s2 |-> u, s3 |-> u, s4 |-> u, s5 |-> u, s6 |-> u,
                s7 |-> u, s8 |-> u, slim |-> u, previn |-> u, rc |-> u,
                fc |-> u, mode |-> u, sr |-> u]
    IN  Scalar_reset(Scalar_setSampleRate(raw, sampleRate))

\* section 3 of process(): expr5 from fc and the modulated resonance
NL_expr5(expr3, expr4) == expr3 + Mul(expr4, expr4)

NL_expr6(expr5) == Mul(12500 + Mul(-7437 + Mul(3000, expr5), expr5), expr5)

NL_expr7(rc_mod, expr6) ==
    Mul(rc_mod, 14000 + Mul(1080 + Mul(-1640 - Mul(690, expr6), expr6), expr6))

\* expr8 and rsub9 with the two coefficients they are computed from
NL_expr8(expr6, expr7) ==
    [expr6 |-> expr6, expr7 |-> expr7,
     expr8 |-> 1800 + Mul(2500, Mul(expr7, expr7)), rsub9 |-> Scale - expr6]

NL_expr7and8(rc_mod, expr6) == NL_expr8(expr6, NL_expr7(rc_mod, expr6))

NL_fromExpr3(expr3, rc_mod) ==
    NL_expr7and8(rc_mod, NL_expr6(NL_expr5(expr3, Mul(expr3, Scale - rc_mod))))

\* sections 2 and 3 of process(): the coefficients of one sample, from fc and
\* the modulated resonance rc_mod
NL_coefficients(fc, rc_mod) == NL_fromExpr3(Mul(fc, fc), rc_mod)

\* the shaped signal of one pass, from the feedback sum and the limiter value
NL_shape(fb, lim) ==
    [lim |-> lim, sig |-> Mul(fb, (Scale - lim) + Mul(Mul(5000, lim), lim))]

\* the soft-clipped feedback of one pass: the limiter value and the shaped signal
NL_saturate(fb, slim) ==
    NL_shape(fb, clamp(Mul(Mul(620, fb), fb) + Mul(9930, slim), -Scale, Scale))

NL_cube(c) == Mul(c, Scale - Mul(Mul(3333, c), c))

\* the cubic soft saturation of the third section
NL_cubic(x) == NL_cube(clamp(x, -Scale, Scale))

\* section 1: the input with its noise term (1e-11f is below the resolution)
NL_input(in1, in4) == in1 + Mul(0, in4)

\* section 2: resonance modulated by the envelope in3 (1e-5f is below the
\* resolution)
Scalar_rc_mod(f, in3) ==
    f.rc + clamp(IDiv(Mul(10500, Max(in3, 0)) - f.rc, 4), -Scale, Scale)

\* section 4, the first pass, from the saved history, with coefficients k
Scalar_pass1(f, k) ==
    LET expr12 == Mul(fixdenorm_signal(f.previn), k.expr8) - Mul(k.expr7, f.s5)
        sat == NL_saturate(expr12, f.slim)
        expr15 == Mul(sat.sig, k.expr6) + Mul(k.rsub9, f.s1)
        add22 == expr15 + Mul(f.s1, 3000)
        expr23 == Mul(add22, k.expr6) + Mul(k.rsub9, f.s2)
        add27 == expr23 + Mul(f.s2, 3000)
        expr30 == Mul(NL_cubic(add27), k.expr6) + Mul(k.rsub9, f.s3)
        add31 == expr30 + Mul(f.s3, 3000)
        expr32 == Mul(add31, k.expr6) + Mul(k.rsub9, f.s4)
    IN  [expr13 |-> sat.lim, expr14 |-> sat.sig, expr15 |-> expr15,
         expr23 |-> expr23, expr30 |-> expr30, expr32 |-> expr32,
         add33 |-> expr32 + Mul(f.s4, 3000)]

\* section 5, the second pass, from the current input expr10 and the values
\* p of the first pass
Scalar_pass2(expr10, p, k) ==
    LET expr34 == Mul(expr10, k.expr8) - Mul(k.expr7, p.add33)
        sat == NL_saturate(expr34, p.expr13)
        expr37 == Mul(sat.sig, k.expr6) + Mul(k.rsub9, p.expr15)
        add38 == expr37 + Mul(p.expr15, 3000)
        expr39 == Mul(add38, k.expr6) + Mul(k.rsub9, p.expr23)
        add40 == expr39 + Mul(p.expr23, 3000)
        expr44 == Mul(NL_cubic(add40), k.expr6) + Mul(k.rsub9, p.expr30)
        add48 == expr44 + Mul(p.expr30, 3000)
        expr49 == Mul(add48, k.expr6) + Mul(k.rsub9, p.expr32)
    IN  [expr35 |-> sat.lim, expr37 |-> expr37, add38 |-> add38,
         expr39 |-> expr39, add40 |-> add40,
         expr44 |-> expr44, add48 |-> add48, expr49 |-> expr49,
         add50 |-> expr49 + Mul(p.expr32, 3000)]

\* section 6: the LP24 combination of both passes and the saved outputs
Scalar_expr51(f, p, q) ==
    Mul(1900, q.add50 + f.s8) + Mul(5700, p.add33 + f.s7) - Mul(5200, f.s6)

\* every intermediate of process(in1, in2, in3, in4) that an output or a
\* state update reads
Scalar_collect(f, expr10, p, q) ==
    [expr10 |-> expr10, expr14 |-> p.expr14, expr15 |-> p.expr15,
     add33 |-> p.add33, expr35 |-> q.expr35, expr37 |-> q.expr37,
     add38 |-> q.add38,
     expr39 |-> q.expr39, add40 |-> q.add40, expr44 |-> q.expr44,
     add48 |-> q.add48, expr49 |-> q.expr49, add50 |-> q.add50,
     expr51 |-> Scalar_expr51(f, p, q)]

Scalar_second(f, expr10, p, k) ==
    Scalar_collect(f, expr10, p, Scalar_pass2(expr10, p, k))

Scalar_passes(f, expr10, k) == Scalar_second(f, expr10, Scalar_pass1(f, k), k)

Scalar_pipeline(f, in1, in3, in4) ==
    Scalar_passes(f, NL_input(in1, in4),
                  NL_coefficients(f.fc, Scalar_rc_mod(f, in3)))

\* sections 6 and 7: the value the switch on mode selects
Scalar_output(mode, p) ==
    CASE mode = 0 -> p.expr51
      [] mode = 1 -> (p.expr14 - 4 * (p.add38 + p.add48) + 6 * p.add40) + p.expr51
      [] mode = 2 -> 4 * (p.add40 + p.expr51) - 8 * p.add48
      [] mode = 3 -> p.add40
      [] mode = 4 -> (p.expr14 - 2 * p.add38) + p.add40
      [] mode = 5 -> 2 * (p.add38 - p.add40)
      [] OTHER -> p.add40

\* section 8 and the return: the state update from the intermediates p
Scalar_update(f, p) ==
    [filter |-> [f EXCEPT !.previn = p.expr10, !.slim = p.expr35,
                          !.s1 = p.expr15, !.s2 = p.expr39, !.s3 = p.expr44,
                          !.s4 = p.expr49, !.s5 = p.add50, !.s6 = p.expr51,
                          !.s7 = p.add50, !.s8 = p.add33],
     out |-> Scalar_output(f.mode, p)]

\* process(): the filter after the call, and the value returned
Scalar_process(f, in1, in3, in4) ==
    Scalar_update(f, Scalar_pipeline(f, in1, in3, in4))

(***************************************************************************)
(* MoogLadderFilterSIMD (DEV/MoogLadderFilterSIMD.cpp): four lanes.  simd  *)
(* is the object; s1..s8, slim, previn, rc, fc hold one value per lane.    *)
(***************************************************************************)
Lanes == 1 .. 4

vdupq_n_f32(v) == [l \in Lanes |-> v]

\* vrecpeq_f32: the hardware estimate of 1/b, good to about 8 bits
vrecpeq_f32(b) == IDiv(IDiv(Div(Scale, b) * 256, Scale) * Scale, 256)

\* one Newton-Raphson step on the estimate r0 of 1/b: r0 * vrecpsq_f32(b, r0)
vrecpsq_step(b, r0) == Mul(2 * Scale - Mul(b, r0), r0)

\* vdivq_f32 of MoogLadderFilterBase.h on one lane: the estimate, one
\* Newton-Raphson step, and the product
vdivq_f32(a, b) == Mul(a, vrecpsq_step(b, vrecpeq_f32(b)))

\* clamp_f32x4 of the class on one lane: vmaxq(vminq(input, maxVal), minVal)
clamp_f32x4(input, minVal, maxVal) == Max(Min(input, maxVal), minVal)

SIMD_reset(f) ==
    [f EXCEPT !.s1 = vdupq_n_f32(0), !.s2 = vdupq_n_f32(0), !.s3 = vdupq_n_f32(0),
              !.s4 = vdupq_n_f32(0), !.s5 = vdupq_n_f32(0), !.s6 = vdupq_n_f32(0),
              !.s7 = vdupq_n_f32(0), !.s8 = vdupq_n_f32(0),
              !.slim = vdupq_n_f32(0), !.previn = vdupq_n_f32(0),
              !.rc = vdupq_n_f32(0), !.fc = vdupq_n_f32(Scale), !.mode = 0]

SIMD_setSampleRate(f, sr_) == [f EXCEPT !.sr = sr_]

SIMD_setParams(f, cutoff, resonance, modeSel) ==
    [f EXCEPT !.mode = modeSel,
              !.rc = [l \in Lanes |-> clamp_f32x4(resonance[l], 0, Scale)],
              !.fc = cutoff]

SIMD_construct(sampleRate, u) ==
    LET v == vdupq_n_f32(u)
        raw == [s1 |-> v, s2 |-> v, s3 |-> v, s4 |-> v, s5 |-> v, s6 |-> v,
                s7 |-> v, s8 |-> v, slim |-> v, previn |-> v, rc |-> v,
                fc |-> v, mode |-> u, sr |-> u]
    IN  SIMD_reset(SIMD_setSampleRate(raw, sampleRate))

\* the resonance of lane l modulated by the envelope in3
SIMD_rc_mod(f, l, in3) ==
    f.rc[l] + clamp_f32x4(vdivq_f32(Mul(10500, Max(in3, 0)) - f.rc[l], 4 * Scale),
                          -Scale, Scale)

\* expr29 and expr30 of lane l from the clamped third-section input
SIMD_expr30(f, l, clamp28, k) ==
    Mul(Mul(clamp28, Scale - Mul(Mul(3333, clamp28), clamp28)), k.expr6)
        + Mul(k.rsub9, f.s3[l])

\* expr15, expr23 and expr30 of lane l from the shaped signal sat
SIMD_ladder(f, l, expr10, sat, k) ==
    LET expr15 == Mul(sat.sig, k.expr6) + Mul(k.rsub9, f.s1[l])
        expr23 == Mul(expr15 + Mul(f.s1[l], 3000), k.expr6) + Mul(k.rsub9, f.s2[l])
        add27 == expr23 + Mul(f.s2[l], 3000)
    IN  [expr10 |-> expr10, expr13 |-> sat.lim, expr15 |-> expr15,
         expr23 |-> expr23,
         expr30 |-> SIMD_expr30(f, l, clamp_f32x4(add27, -Scale, Scale), k)]

\* expr13 and expr14 of lane l from the feedback sum expr12
SIMD_saturate(f, l, expr12) ==
    NL_shape(expr12,
             clamp_f32x4(Mul(Mul(620, expr12), expr12) + Mul(9930, f.slim[l]),
                         -Scale, Scale))

\* the ladder computation of process() on lane l, with coefficients k
SIMD_pass(f, l, expr10, k) ==
    SIMD_ladder(f, l, expr10,
                SIMD_saturate(f, l, Mul(f.previn[l], k.expr8) - Mul(k.expr7, f.s5[l])),
                k)

\* the intermediates of process() on lane l
SIMD_lane(f, l, in1, in3, in4) ==
    SIMD_pass(f, l, NL_input(in1, in4),
              NL_coefficients(f.fc[l], SIMD_rc_mod(f, l, in3)))

\* the switch on mode: every case selects expr30
SIMD_output(mode, p) == IF mode = 0 THEN p.expr30 ELSE p.expr30

\* the state update and the return from the lane intermediates p
SIMD_update(f, p) ==
    [filter |-> [f EXCEPT !.previn = [l \in Lanes |-> p[l].expr10],
                          !.slim = [l \in Lanes |-> p[l].expr13],
                          !.s1 = [l \in Lanes |-> p[l].expr15],
                          !.s2 = [l \in Lanes |-> p[l].expr23],
                          !.s3 = [l \in Lanes |-> p[l].expr30]],
     out |-> [l \in Lanes |-> SIMD_output(f.mode, p[l])]]

\* process(): the filter after the call, and the vector returned
SIMD_process(f, in1, in3, in4) ==
    SIMD_update(f, [l \in Lanes |-> SIMD_lane(f, l, in1[l], in3[l], in4[l])])

(***************************************************************************)
(* Calls made on the ZDF filter.  zdfLog records what the caller saw:      *)
(* op (the last call), cutoffArg (the last setCutoff argument), cutoffHz   *)
(* (setCutoff's local after the clamp), validMode (the last setMode        *)
(* argument in 0..2), x and out (the last process() input and result),     *)
(* prev4, fb and fbTerm (of the last process(): stage[3] as the call found *)
(* it, the feedback sample fb it formed, and feedbackGain * fb, which it   *)
(* subtracted from the input), since (process() calls since the last       *)
(* reset), n (process() calls).                                            *)
(* Unit "zdf-params" exercises the parameter interface alone over wide     *)
(* argument sets; unit "zdf" also runs process(), over narrow ones.        *)
(***************************************************************************)
SampleRates == {44100, 48000}

\* indeterminate values a member may hold before it is first written
Indeterminate == {0, 12345}

ZDF_cutoffArgs(f) ==
    IF unit = "zdf" THEN {f.sampleRate}
    ELSE {-100, 0, 20, 1000, IDiv(45 * f.sampleRate, 100), f.sampleRate \div 2,
          f.sampleRate}

ZDF_resonanceArgs ==
    IF unit = "zdf" THEN {Scale \div 2, 3 * (Scale \div 2)}
    ELSE {-(Scale \div 2), 0, 2500, Scale \div 2, Scale, 3 * (Scale \div 2)}

ZDF_driveArgs ==
    IF unit = "zdf" THEN {5, 2 * Scale}
    ELSE {-(Scale \div 2), 0, 5, Scale \div 2, Scale, 2 * Scale}

ZDF_modeArgs == IF unit = "zdf" THEN {BP12, HP24, 3} ELSE -2 .. 4

Inputs == {-Scale, Scale \div 2}

\* log fields beside those above: arg (the last setter argument), resArg
\* (the last setResonance argument), rep (the last call was a setCutoff that
\* repeated the argument of the setCutoff just before it)
ZdfStart ==
    \E sr \in SampleRates, u \in Indeterminate :
        /\ zdf = ZDF_construct(sr, u)
        /\ zdfLog = [op |-> "construct", arg |-> sr, cutoffArg |-> 1000,
                     cutoffHz |-> ZDF_clampedCutoff(zdf, 1000),
                     resArg |-> Scale \div 2, rep |-> FALSE,
                     validMode |-> LP24, x |-> 0, out |-> 0, prev4 |-> 0,
                     fb |-> 0, fbTerm |-> 0, since |-> 0, n |-> 0]

\* the ZDF filter is the unit in use; what its actions leave alone
ZdfFrame ==
    /\ unit \in {"zdf-params", "zdf"}
    /\ UNCHANGED <<unit, dz, dzLog, sc, simd, nlLog, bl, blLog, fx, fxLog,
                   mf, mfLog, mh, mhLog>>
    /\ UNCHANGED controlVars

ZdfSetCutoff ==
    /\ ZdfFrame
    /\ \E c \in ZDF_cutoffArgs(zdf) :
           /\ zdf' = ZDF_setCutoff(zdf, c)
           /\ zdfLog' = [zdfLog EXCEPT !.op = "setCutoff", !.arg = c, !.cutoffArg = c,
                            !.cutoffHz = ZDF_clampedCutoff(zdf, c),
                            !.rep = (zdfLog.op = "setCutoff" /\ zdfLog.cutoffArg = c)]

ZdfSetResonance ==
    /\ ZdfFrame
    /\ \E r \in ZDF_resonanceArgs :
           /\ zdf' = ZDF_setResonance(zdf, r)
           /\ zdfLog' = [zdfLog EXCEPT !.op = "setResonance", !.arg = r, !.resArg = r,
                                       !.rep = FALSE]

ZdfSetMode ==
    /\ ZdfFrame
    /\ \E m \in ZDF_modeArgs :
           /\ zdf' = ZDF_setMode(zdf, m)
           /\ zdfLog' = [zdfLog EXCEPT !.op = "setMode", !.arg = m, !.rep = FALSE,
                            !.validMode = IF m \in {LP24, BP12, HP24} THEN m ELSE @]

ZdfSetDrive ==
    /\ ZdfFrame
    /\ \E d \in ZDF_driveArgs :
           /\ zdf' = ZDF_setDrive(zdf, d)
           /\ zdfLog' = [zdfLog EXCEPT !.op = "setDrive", !.arg = d, !.rep = FALSE]

ZdfReset ==
    /\ ZdfFrame
    /\ zdf' = ZDF_reset(zdf)
    /\ zdfLog' = [zdfLog EXCEPT !.op = "reset", !.since = 0, !.rep = FALSE]

ZdfProcess ==
    /\ ZdfFrame
    /\ unit = "zdf"
    /\ zdfLog.n < ZdfMaxSamples
    /\ \E x \in Inputs :
          LET r == ZDF_process(zdf, x)
          IN  /\ zdf' = r.filter
              /\ zdfLog' = [zdfLog EXCEPT !.op = "process", !.x = x, !.out = r.out,
                               !.prev4 = zdf.stage[4], !.fb = ZDF_feedback(zdf),
                               !.fbTerm = Mul(zdf.feedbackGain, ZDF_feedback(zdf)),
                               !.since = @ + 1, !.n = @ + 1, !.rep = FALSE]

(***************************************************************************)
(* ZDFMoogLadderFilter of DEV/ZDFMoogLadderFilter.cpp, the earlier ZDF     *)
(* class without drive and mode.  dz is the object: sampleRate, resonance, *)
(* feedbackGain, G, stage, z.  Its setCutoff computes                      *)
(* G = ((2/T) * tanf(wd * T / 2)) * T / 2 with wd = 2 * pi * cutoffHz and  *)
(* T = 1 / sampleRate, which is tanf(pi * cutoffHz / sampleRate).          *)
(***************************************************************************)
DZ_setCutoff(f, cutoffHz) ==
    LET c == clamp_float(cutoffHz, 20, IDiv(45 * f.sampleRate, 100))
    IN  [f EXCEPT !.G = tanf(IDiv(PiS * c, f.sampleRate)),
                  !.feedbackGain = Mul(f.resonance, 4 * Scale)]

DZ_setResonance(f, r) ==
    LET res == clamp_float(r, 0, Scale)
    IN  [f EXCEPT !.resonance = res, !.feedbackGain = Mul(res, 4 * Scale)]

DZ_reset(f) == [f EXCEPT !.stage = <<0, 0, 0, 0>>, !.z = <<0, 0, 0, 0>>]

\* process(input): the feedback is the stored stage[3]; the stage loop is the
\* loop of ZDF_stages
DZ_process(f, input) ==
    LET p == ZDF_stages(f, input - Mul(f.feedbackGain, f.stage[4]), 4)
    IN  [filter |-> [f EXCEPT !.stage = p.stage, !.z = p.z], out |-> p.stage[4]]

DZ_construct(sampleRate, u) ==
    LET raw == [sampleRate |-> sampleRate, resonance |-> u, feedbackGain |-> u,
                G |-> u, stage |-> <<u, u, u, u>>, z |-> <<u, u, u, u>>]
    IN  DZ_setResonance(DZ_setCutoff(DZ_reset(raw), 1000), Scale \div 2)

DZ_cutoffArgs(f) == {-100, 20, IDiv(45 * f.sampleRate, 100), f.sampleRate}

DZ_resonanceArgs == {2500, 3 * (Scale \div 2)}

\* dzLog has the fields op, arg, rep, x, out, fbTerm, since, n of zdfLog
DzStart ==
    \E sr \in SampleRates, u \in Indeterminate :
        /\ dz = DZ_construct(sr, u)
        /\ dzLog = [op |-> "construct", arg |-> sr, rep |-> FALSE, x |-> 0,
                    out |-> 0, fbTerm |-> 0, since |-> 0, n |-> 0]

DzFrame ==
    /\ unit = "zdf-dev"
    /\ UNCHANGED <<unit, zdf, zdfLog, sc, simd, nlLog, bl, blLog, fx, fxLog,
                   mf, mfLog, mh, mhLog>>
    /\ UNCHANGED controlVars

DzSetCutoff ==
    /\ DzFrame
    /\ \E c \in DZ_cutoffArgs(dz) :
           /\ dz' = DZ_setCutoff(dz, c)
           /\ dzLog' = [dzLog EXCEPT !.op = "setCutoff", !.arg = c,
                           !.rep = (dzLog.op = "setCutoff" /\ dzLog.arg = c)]

DzSetResonance ==
    /\ DzFrame
    /\ \E r \in DZ_resonanceArgs :
           /\ dz' = DZ_setResonance(dz, r)
           /\ dzLog' = [dzLog EXCEPT !.op = "setResonance", !.arg = r,
                                     !.rep = FALSE]

DzReset ==
    /\ DzFrame
    /\ dz' = DZ_reset(dz)
    /\ dzLog' = [dzLog EXCEPT !.op = "reset", !.since = 0, !.rep = FALSE]

DzProcess ==
    /\ DzFrame
    /\ dzLog.n < ZdfMaxSamples
    /\ \E x \in Inputs :
          LET r == DZ_process(dz, x)
          IN  /\ dz' = r.filter
              /\ dzLog' = [dzLog EXCEPT !.op = "process", !.x = x, !.out = r.out,
                              !.fbTerm = Mul(dz.feedbackGain, dz.stage[4]),
                              !.since = @ + 1, !.n = @ + 1, !.rep = FALSE]

(***************************************************************************)
(* Calls made on the scalar and the SIMD filter, which the comparison      *)
(* program (MoogLadderFilterScalarVsSIMD_TEST.cpp) drives side by side:    *)
(* every call goes to both, the SIMD one with the same value in each lane. *)
(* nlLog: op, cutSet (setParams was called since the last reset), in1 and  *)
(* in3 (the last process() inputs), scOut and simdOut (what the two        *)
(* process() calls returned), lp24 (what the scalar call would have        *)
(* returned with mode 0), since, n.  Unit "nl-params" passes cutoffs in    *)
(* Hz to the parameter interface alone; unit "nl" passes normalised        *)
(* cutoffs and runs process(); unit "nl-quiet" does the same on signals    *)
(* near the threshold of the denormal guard, without noise input.          *)
(***************************************************************************)
NL_cutoffArgs ==
    IF unit \in {"nl", "nl-quiet"} THEN {Scale \div 2}
    ELSE {0, 5 * Scale, 1000 * Scale, 30000 * Scale}

NL_resonanceArgs ==
    IF unit \in {"nl", "nl-quiet"} THEN {3000} ELSE {-Scale, 3000, 2 * Scale}

NL_modeArgs ==
    IF unit = "nl" THEN -1 .. 6 ELSE IF unit = "nl-quiet" THEN {0} ELSE {0, 7}

NL_in1 == IF unit = "nl-quiet" THEN {0, QuietThreshold \div 2} ELSE {0, Scale}

NL_in3 == {Scale \div 2}

\* the noise input: its 1e-11f weight puts it below the resolution
NL_in4 == IF unit = "nl-quiet" THEN {0} ELSE {Scale}

NlStart ==
    \E sr \in SampleRates, u \in Indeterminate :
        /\ sc = Scalar_construct(sr, u)
        /\ simd = SIMD_construct(sr, u)
        /\ nlLog = [op |-> "construct", cutSet |-> FALSE, in1 |-> 0, in3 |-> 0,
                    scOut |-> 0, simdOut |-> vdupq_n_f32(0), lp24 |-> 0,
                    pass2 |-> <<0, 0, 0, 0>>, since |-> 0, n |-> 0]

NlFrame ==
    /\ unit \in {"nl-params", "nl", "nl-quiet"}
    /\ UNCHANGED <<unit, zdf, zdfLog, dz, dzLog, bl, blLog, fx, fxLog,
                   mf, mfLog, mh, mhLog>>
    /\ UNCHANGED controlVars

NlSetSampleRate ==
    /\ NlFrame
    /\ \E sr \in SampleRates :
           /\ sc' = Scalar_setSampleRate(sc, sr)
           /\ simd' = SIMD_setSampleRate(simd, sr)
           /\ nlLog' = [nlLog EXCEPT !.op = "setSampleRate"]

NlSetParams ==
    /\ NlFrame
    /\ \E c \in NL_cutoffArgs, r \in NL_resonanceArgs, m \in NL_modeArgs :
           /\ sc' = Scalar_setParams(sc, c, r, m)
           /\ simd' = SIMD_setParams(simd, vdupq_n_f32(c), vdupq_n_f32(r), m)
           /\ nlLog' = [nlLog EXCEPT !.op = "setParams", !.cutSet = TRUE]

NlReset ==
    /\ NlFrame
    /\ sc' = Scalar_reset(sc)
    /\ simd' = SIMD_reset(simd)
    /\ nlLog' = [nlLog EXCEPT !.op = "reset", !.cutSet = FALSE, !.since = 0]

NlProcess ==
    /\ NlFrame
    /\ unit \in {"nl", "nl-quiet"}
    /\ nlLog.n < NlMaxSamples
    /\ \E in1 \in NL_in1, in3 \in NL_in3, in4 \in NL_in4 :
          \E p \in {Scalar_pipeline(sc, in1, in3, in4)} :
          \E r \in {Scalar_update(sc, p)},
             v \in {SIMD_process(simd, vdupq_n_f32(in1), vdupq_n_f32(in3),
                                 vdupq_n_f32(in4))},
             ref \in {Scalar_process([sc EXCEPT !.mode = 0], in1, in3, in4)} :
              /\ sc' = r.filter
              /\ simd' = v.filter
              /\ nlLog' = [nlLog EXCEPT !.op = "process", !.in1 = in1, !.in3 = in3,
                              !.scOut = r.out, !.simdOut = v.out, !.lp24 = ref.out,
                              !.pass2 = <<p.expr37, p.expr39, p.expr44, p.expr49>>,
                              !.since = @ + 1, !.n = @ + 1]

(***************************************************************************)
(* MoogLadderFilter of DEV/BilinearTransformMoogLadderFilter.cpp.  bl is   *)
(* the object: sampleRate, cutoff (Hz), resonance, tuning, feedback, y.    *)
(***************************************************************************)
fmax(a, b) == IF a < b THEN b ELSE a

fmin(a, b) == IF b < a THEN b ELSE a

BL_updateCoefficients(f) ==
    [f EXCEPT !.tuning = tanf(IDiv(PiS * f.cutoff, f.sampleRate)),
              !.feedback = f.resonance * 4]

BL_construct(rate, u) ==
    BL_updateCoefficients([sampleRate |-> rate, cutoff |-> 1000,
                           resonance |-> Scale \div 2, tuning |-> u,
                           feedback |-> u, y |-> <<0, 0, 0, 0>>])

BL_setSampleRate(f, rate) == BL_updateCoefficients([f EXCEPT !.sampleRate = rate])

BL_setCutoff(f, cutoffHz) ==
    BL_updateCoefficients(
        [f EXCEPT !.cutoff = fmin(fmax(cutoffHz, 5), IDiv(45 * f.sampleRate, 100))])

BL_setResonance(f, res) ==
    BL_updateCoefficients([f EXCEPT !.resonance = fmin(fmax(res, 0), Scale)])

BL_process(f, input) ==
    LET x == input - Mul(f.feedback, f.y[4])
        y0 == f.y[1] + Mul(f.tuning, tanhf(x) - tanhf(f.y[1]))
        y1 == f.y[2] + Mul(f.tuning, tanhf(y0) - tanhf(f.y[2]))
        y2 == f.y[3] + Mul(f.tuning, tanhf(y1) - tanhf(f.y[3]))
        y3 == f.y[4] + Mul(f.tuning, tanhf(y2) - tanhf(f.y[4]))
    IN  [filter |-> [f EXCEPT !.y = <<y0, y1, y2, y3>>], out |-> y3]

BL_cutoffArgs == {3, 10, 48000}

BL_resonanceArgs == {3 * (Scale \div 2)}

BlStart ==
    \E sr \in SampleRates, u \in Indeterminate :
        /\ bl = BL_construct(sr, u)
        /\ blLog = [op |-> "construct", n |-> 0]

BlFrame ==
    /\ unit = "bilinear"
    /\ UNCHANGED <<unit, zdf, zdfLog, dz, dzLog, sc, simd, nlLog, fx, fxLog,
                   mf, mfLog, mh, mhLog>>
    /\ UNCHANGED controlVars

BlSetSampleRate ==
    /\ BlFrame
    /\ \E sr \in SampleRates :
           /\ bl' = BL_setSampleRate(bl, sr)
           /\ blLog' = [blLog EXCEPT !.op = "setSampleRate"]

BlSetCutoff ==
    /\ BlFrame
    /\ \E c \in BL_cutoffArgs :
           /\ bl' = BL_setCutoff(bl, c)
           /\ blLog' = [blLog EXCEPT !.op = "setCutoff"]

BlSetResonance ==
    /\ BlFrame
    /\ \E r \in BL_resonanceArgs :
           /\ bl' = BL_setResonance(bl, r)
           /\ blLog' = [blLog EXCEPT !.op = "setResonance"]

BlProcess ==
    /\ BlFrame
    /\ blLog.n < BlMaxSamples
    /\ \E x \in {Scale} :
          /\ bl' = BL_process(bl, x).filter
          /\ blLog' = [blLog EXCEPT !.op = "process", !.n = @ + 1]

(***************************************************************************)
(* MoogLadderFilterFixedPoint (DEV/MoogLadderFilterFixedPoint.cpp), in the *)
(* int arithmetic of the C++ code: / truncates, >> 16 is the arithmetic    *)
(* shift, << 16 multiplies by 65536.  With the sample rates and arguments  *)
(* used here no intermediate leaves the 32-bit range.  fx is the object:   *)
(* sampleRate, alpha, feedbackAmount, fc, rc, prevIn, s.  The constructor  *)
(* writes sampleRate, prevIn and s only; the other members are             *)
(* indeterminate until their setter is called.                             *)
(***************************************************************************)
\* int is 32 bits wide
MaxInt == 2147483647

MinInt == -MaxInt - 1

\* x << 16 keeps the low 32 bits of the product, read as a signed int
Shl16(x) ==
    LET low == x % 65536
    IN  (IF low >= 32768 THEN low - 65536 ELSE low) * 65536

\* whether x << 16, a * b, a + b are representable in an int
FitsShl16(x) == -32768 <= x /\ x <= 32767

\* the largest magnitude whose product with the magnitude a > 1 fits, for a
\* negative (down to MinInt) or a positive (up to MaxInt) product
MulLimit(a, negative) ==
    MaxInt \div a + (IF negative /\ MaxInt % a = a - 1 THEN 1 ELSE 0)

FitsMul(a, b) ==
    \/ a = 0 \/ b = 0 \/ a = 1 \/ b = 1
    \/ /\ a # MinInt /\ b # MinInt
       /\ \/ a = -1
          \/ Abs(b) <= MulLimit(Abs(a), (a < 0) # (b < 0))

FitsAdd(a, b) ==
    IF a > 0 /\ b > 0 THEN a <= MaxInt - b
    ELSE IF a < 0 /\ b < 0 THEN a >= MinInt - b ELSE TRUE

Shr16(x) == x \div 65536

clamp_int(x, minVal, maxVal) ==
    IF x < minVal THEN minVal ELSE IF x > maxVal THEN maxVal ELSE x

tanh_approx(x) ==
    LET c == clamp_int(x, -32768, 32767)
    IN  c - Shr16(c * c)

Fixed_reset(f) == [f EXCEPT !.prevIn = 0, !.s = <<0, 0, 0, 0>>]

Fixed_construct(sampleRate, u) ==
    Fixed_reset([sampleRate |-> sampleRate, alpha |-> u, feedbackAmount |-> u,
                 fc |-> u, rc |-> u, prevIn |-> u, s |-> <<u, u, u, u>>])

Fixed_setCutoff(f, frequency) ==
    LET fc == clamp_int(frequency, 20, IDiv(f.sampleRate, 2))
        normFreq == IDiv(Shl16(fc), f.sampleRate)
        g == Shr16(normFreq * normFreq)
        alpha == IDiv(g, 1 + g)
    IN  [f EXCEPT !.fc = fc, !.alpha = alpha,
                  !.feedbackAmount = Shr16(alpha * alpha)]

\* whether every shift, product and sum of setCutoff(frequency) fits an int
Fixed_setCutoff_fits(f, frequency) ==
    LET fc == clamp_int(frequency, 20, IDiv(f.sampleRate, 2))
        normFreq == IDiv(Shl16(fc), f.sampleRate)
        g == Shr16(normFreq * normFreq)
        alpha == IDiv(g, 1 + g)
    IN  /\ FitsShl16(fc)
        /\ FitsMul(normFreq, normFreq)
        /\ FitsAdd(1, g)
        /\ FitsMul(alpha, alpha)

Fixed_setResonance(f, resonance) ==
    [f EXCEPT !.rc = clamp_int(resonance, 0, 255) \div 4]

Fixed_process(f, in) ==
    LET input == in + 1
        feedback == tanh_approx(f.rc * (f.s[4] - input))
        s1 == Shr16((input - feedback) * f.alpha) + Shr16(f.feedbackAmount * f.s[1])
        s2 == Shr16(s1 * f.alpha) + Shr16(f.feedbackAmount * f.s[2])
        s3 == Shr16(s2 * f.alpha) + Shr16(f.feedbackAmount * f.s[3])
        s4 == Shr16(s3 * f.alpha) + Shr16(f.feedbackAmount * f.s[4])
    IN  [filter |-> [f EXCEPT !.s = <<s1, s2, s3, s4>>], out |-> s4]

\* whether the product and the sum of one stage of process() fit an int:
\* ((u * alpha) >> 16) + ((feedbackAmount * s) >> 16)
Fixed_stage_fits(f, u, s) ==
    /\ FitsMul(u, f.alpha)
    /\ FitsMul(f.feedbackAmount, s)
    /\ FitsAdd(Shr16(u * f.alpha), Shr16(f.feedbackAmount * s))

\* whether the feedback computation of process() fits, input being in + 1
Fixed_feedback_fits(f, input) ==
    /\ FitsAdd(f.s[4], -input)
    /\ FitsMul(f.rc, f.s[4] - input)
    /\ FitsAdd(input, -tanh_approx(f.rc * (f.s[4] - input)))
    /\ Fixed_stage_fits(f, input - tanh_approx(f.rc * (f.s[4] - input)), f.s[1])

\* whether every product and sum of process(in) fits an int; s1, s2, s3 are
\* read from the registers the call stores them to
Fixed_process_fits(f, in) ==
    /\ FitsAdd(in, 1)
    /\ Fixed_feedback_fits(f, in + 1)
    /\ \A i \in 2 .. 4 :
           Fixed_stage_fits(f, Fixed_process(f, in).filter.s[i - 1], f.s[i])

(***************************************************************************)
(* Calls made on the fixed-point filter.  fxLog: op, cutSet and resSet     *)
(* (setCutoff / setResonance has been called), zeros (process(0) calls     *)
(* since the last reset), onlyZeros (no other input was processed since    *)
(* the last reset), moved (some process() call since the last reset left a *)
(* stage register nonzero), n, arg and rep as in zdfLog, and fits (every   *)
(* shift, product and sum of the last setCutoff() or process() call was    *)
(* representable in an int).  The filter is also built for 96 kHz, and the *)
(* inputs include Q16.16 full scale, 65536.                                *)
(***************************************************************************)
Fixed_sampleRates == SampleRates \cup {96000}

Fixed_cutoffArgs(f) == {-100, 1000, f.sampleRate}

Fixed_resonanceArgs == {0, 128, 300}

Fixed_inputs == {0, 65536}

FxStart ==
    \E sr \in Fixed_sampleRates, u \in Indeterminate :
        /\ fx = Fixed_construct(sr, u)
        /\ fxLog = [op |-> "construct", cutSet |-> FALSE, resSet |-> FALSE,
                    zeros |-> 0, onlyZeros |-> TRUE, moved |-> FALSE, n |-> 0,
                    arg |-> sr, rep |-> FALSE, fits |-> TRUE]

FxFrame ==
    /\ unit = "fixed"
    /\ UNCHANGED <<unit, zdf, zdfLog, dz, dzLog, sc, simd, nlLog, bl, blLog,
                   mf, mfLog, mh, mhLog>>
    /\ UNCHANGED controlVars

FxSetCutoff ==
    /\ FxFrame
    /\ \E c \in Fixed_cutoffArgs(fx) :
           /\ fx' = Fixed_setCutoff(fx, c)
           /\ fxLog' = [fxLog EXCEPT !.op = "setCutoff", !.cutSet = TRUE, !.arg = c,
                            !.fits = Fixed_setCutoff_fits(fx, c),
                            !.rep = (fxLog.op = "setCutoff" /\ fxLog.arg = c)]

FxSetResonance ==
    /\ FxFrame
    /\ \E r \in Fixed_resonanceArgs :
           /\ fx' = Fixed_setResonance(fx, r)
           /\ fxLog' = [fxLog EXCEPT !.op = "setResonance", !.resSet = TRUE]

FxReset ==
    /\ FxFrame
    /\ fx' = Fixed_reset(fx)
    /\ fxLog' = [fxLog EXCEPT !.op = "reset", !.zeros = 0, !.onlyZeros = TRUE,
                              !.moved = FALSE]

FxProcess ==
    /\ FxFrame
    /\ fxLog.n < FxMaxSamples
    /\ \E x \in Fixed_inputs :
          LET r == Fixed_process(fx, x)
          IN  /\ fx' = r.filter
              /\ fxLog' = [fxLog EXCEPT !.op = "process",
                              !.zeros = IF x = 0 THEN @ + 1 ELSE @,
                              !.onlyZeros = @ /\ x = 0,
                              !.moved = @ \/ r.filter.s # <<0, 0, 0, 0>>,
                              !.fits = Fixed_process_fits(fx, x),
                              !.n = @ + 1]

(***************************************************************************)
(* MoogFilter of DEV/EmpiricallyTunedMoogFilter.cpp with the block         *)
(* processing of DEV/NeonMoogFilter.cpp (class of NeonMoogFilterHybrid.h). *)
(* mf is the object: sampleRate, cutoff (Hz), resonance, fc, f, k, p,      *)
(* scale, stage[4], delay[4].                                              *)
(***************************************************************************)
\* a / b as Div(a, b), for divisors up to 2 * 10^7
DivLong(a, b) ==
    LET r == (Abs(a) % Abs(b)) * 100
    IN  Sgn(a) * Sgn(b) *
          ((Abs(a) \div Abs(b)) * Scale + (r \div Abs(b)) * 100
             + ((r % Abs(b)) * 100) \div Abs(b))

\* fastTanh: x * (27 + x^2) / (27 + 9 x^2)
MF_fastTanh(x) ==
    DivLong(Mul(x, 27 * Scale + Mul(x, x)), 27 * Scale + 9 * Mul(x, x))

\* neon_divide_f32 on one lane: the estimate of 1/den, two Newton-Raphson
\* steps, and the product
neon_divide_f32(num, den) ==
    Mul(num, vrecpsq_step(den, vrecpsq_step(den, vrecpeq_f32(den))))

\* fastTanhSIMD on one lane
MF_fastTanhSIMD(x) ==
    neon_divide_f32(Mul(x, 27 * Scale + Mul(x, x)), 27 * Scale + 9 * Mul(x, x))

MF_updateCoefficients(m) ==
    LET f == Mul(IDiv(m.cutoff * Scale, m.sampleRate), 11600)
    IN  [m EXCEPT !.fc = IDiv(m.cutoff * Scale, m.sampleRate),
                  !.f = f,
                  !.k = Mul(Mul(4 * Scale, m.resonance),
                            Scale - Mul(Mul(1500, f), f)),
                  !.p = Mul(f, 18000 - Mul(8000, f)),
                  !.scale = Scale - Mul(f, 18000 - Mul(8000, f))]

\* the constructor; u is the indeterminate value of the members that the
\* initialiser list leaves to updateCoefficients()
MF_construct(sr, u) ==
    MF_updateCoefficients(
        [sampleRate |-> sr, cutoff |-> 1000, resonance |-> 0, fc |-> u, f |-> u,
         k |-> u, p |-> u, scale |-> u, stage |-> <<0, 0, 0, 0>>,
         delay |-> <<0, 0, 0, 0>>])

MF_setCutoff(m, frequency) ==
    MF_updateCoefficients(
        [m EXCEPT !.cutoff = IF frequency < 20 THEN 20
                             ELSE IF frequency > IDiv(m.sampleRate * 2, 5)
                                  THEN IDiv(m.sampleRate * 2, 5)
                                  ELSE frequency])

MF_setResonance(m, r) ==
    MF_updateCoefficients(
        [m EXCEPT !.resonance = IF r < 0 THEN 0
                                ELSE IF r > Scale THEN Scale ELSE r])

MF_reset(m) == [m EXCEPT !.stage = <<0, 0, 0, 0>>, !.delay = <<0, 0, 0, 0>>]

\* process(): stage[j], computed from the feedback sum x and the delays the
\* call found (delay[j] is overwritten after stage[j] has read it)
RECURSIVE MF_stage(_, _, _)
MF_stage(m, x, j) ==
    IF j = 0 THEN x
    ELSE MF_fastTanh(Mul(MF_stage(m, x, j - 1), m.p) + Mul(m.delay[j], m.scale))

\* process(input): the filter after the call, and the value returned
MF_process(m, input) ==
    LET s == [j \in 1 .. 4 |-> MF_stage(m, input - Mul(m.k, m.delay[4]), j)]
    IN  [filter |-> [m EXCEPT !.stage = s, !.delay = s], out |-> s[4]]

\* the scalar loop over the samples input[i], input[i + 1], ..., appending
\* to the outputs out: processBlock(), and the remainder loop of
\* processBlockSIMD()
RECURSIVE MF_loop(_, _, _, _)
MF_next(r, input, i, out) == MF_loop(r.filter, input, i + 1, Append(out, r.out))

MF_loop(m, input, i, out) ==
    IF i > Len(input) THEN [filter |-> m, out |-> out]
    ELSE MF_next(MF_process(m, input[i]), input, i, out)

MF_processBlock(m, input) == MF_loop(m, input, 1, <<>>)

\* processBlockSIMD(): stageNVec of one lane whose feedback sum is x; every
\* lane reads the delays the block of four found
RECURSIVE MF_stageSIMD(_, _, _)
MF_stageSIMD(m, x, j) ==
    IF j = 0 THEN x
    ELSE MF_fastTanhSIMD(Mul(MF_stageSIMD(m, x, j - 1), m.p)
                           + Mul(m.delay[j], m.scale))

\* one block of four, input[i .. i + 3]: delay takes lane 0 of each stage,
\* the output takes the four lanes of stage3Vec
MF_vectorDelay(m, x) ==
    [m EXCEPT !.delay = [j \in 1 .. 4 |->
                            MF_stageSIMD(m, x - Mul(m.k, m.delay[4]), j)]]

MF_vectorOut(m, input, i) ==
    [l \in 1 .. 4 |-> MF_stageSIMD(m, input[i + l - 1] - Mul(m.k, m.delay[4]), 4)]

RECURSIVE MF_vectorLoop(_, _, _, _)
MF_vectorLoop(m, input, i, out) ==
    IF i + 3 <= Len(input)
    THEN MF_vectorLoop(MF_vectorDelay(m, input[i]), input, i + 4,
                       out \o MF_vectorOut(m, input, i))
    ELSE MF_loop(m, input, i, out)

MF_processBlockSIMD(m, input) == MF_vectorLoop(m, input, 1, <<>>)

(***************************************************************************)
(* Calls made on MoogFilter.  mfLog: op, n (calls of process() and         *)
(* processBlockSIMD()), input and out (the block passed to the last        *)
(* processBlockSIMD() and the outputs it wrote), ref (what processBlock(), *)
(* the loop of process() calls, gives on that input from the state the     *)
(* call started in: the filter after it and its outputs).                  *)
(***************************************************************************)
NeonMaxCalls == 1

MF_cutoffArgs == {8000}

MF_resonanceArgs == {Scale \div 2}

MF_inputs == {Scale, -Scale \div 2}

\* blocks of 4 and of 5 samples that alternate between two input values
MF_blocks ==
    {[i \in 1 .. n |-> IF i % 2 = 1 THEN a ELSE b] :
        n \in {4, 5}, a \in MF_inputs, b \in MF_inputs}

MfStart ==
    \E sr \in SampleRates, u \in Indeterminate :
        /\ mf = MF_construct(sr, u)
        /\ mfLog = [op |-> "construct", n |-> 0, input |-> <<>>, out |-> <<>>,
                    ref |-> [filter |-> mf, out |-> <<>>]]

MfFrame ==
    /\ unit = "neon"
    /\ UNCHANGED <<unit, zdf, zdfLog, dz, dzLog, sc, simd, nlLog, bl, blLog, fx,
                   fxLog, mh, mhLog>>
    /\ UNCHANGED controlVars

MfSetCutoff ==
    /\ MfFrame
    /\ \E c \in MF_cutoffArgs : mf' = MF_setCutoff(mf, c)
    /\ mfLog' = [mfLog EXCEPT !.op = "setCutoff"]

MfSetResonance ==
    /\ MfFrame
    /\ \E r \in MF_resonanceArgs : mf' = MF_setResonance(mf, r)
    /\ mfLog' = [mfLog EXCEPT !.op = "setResonance"]

MfReset ==
    /\ MfFrame
    /\ mf' = MF_reset(mf)
    /\ mfLog' = [mfLog EXCEPT !.op = "reset"]

MfProcess ==
    /\ MfFrame
    /\ mfLog.n < NeonMaxCalls
    /\ \E x \in MF_inputs : mf' = MF_process(mf, x).filter
    /\ mfLog' = [mfLog EXCEPT !.op = "process", !.n = @ + 1]

MfProcessBlockSIMD ==
    /\ MfFrame
    /\ mfLog.n < NeonMaxCalls
    /\ \E input \in MF_blocks :
          \E r \in {MF_processBlockSIMD(mf, input)} :
              /\ mf' = r.filter
              /\ mfLog' = [mfLog EXCEPT !.op = "processBlockSIMD", !.n = @ + 1,
                              !.input = input, !.out = r.out,
                              !.ref = MF_processBlock(mf, input)]

(***************************************************************************)
(* MidiHandler (MidiHandler.cpp).  mh is the object: sampleRate,           *)
(* delayTimeMs, and the two queues incomingMessages and delayedMessages,   *)
(* front first.  Times are whole milliseconds.  render() makes every call  *)
(* from the audio callback, one at a time.                                 *)
(***************************************************************************)
MH_construct(sampleRate, delayMs) ==
    [sampleRate |-> sampleRate, delayTimeMs |-> delayMs,
     incomingMessages |-> <<>>, delayedMessages |-> <<>>]

MH_processMidiMessage(h, noteNumber, velocity, currentTimeMs) ==
    [h EXCEPT !.incomingMessages =
                  Append(@, [noteNumber |-> noteNumber, velocity |-> velocity,
                             timestamp |-> currentTimeMs])]

\* an update() that transfers every incoming message, due or not
MH_update_ignoringDelay(h, currentTimeMs) ==
    [h EXCEPT !.delayedMessages = @ \o h.incomingMessages,
              !.incomingMessages = <<>>]

\* an update() that transfers the front message alone, if it is due
MH_update_once(h, currentTimeMs) ==
    IF /\ h.incomingMessages # <<>>
       /\ currentTimeMs - Head(h.incomingMessages).timestamp >= h.delayTimeMs
    THEN [h EXCEPT !.delayedMessages = Append(@, Head(h.incomingMessages)),
                   !.incomingMessages = Tail(@)]
    ELSE h

\* update(): the loop moves the front of incomingMessages while it is due
RECURSIVE MH_update(_, _)
MH_update(h, currentTimeMs) ==
    IF h.incomingMessages = <<>> THEN h
    ELSE IF currentTimeMs - Head(h.incomingMessages).timestamp >= h.delayTimeMs
         THEN MH_update([h EXCEPT !.delayedMessages =
                                      Append(@, Head(h.incomingMessages)),
                                  !.incomingMessages = Tail(@)],
                        currentTimeMs)
         ELSE h

\* a popDelayedMessage() that takes the newest delayed message
MH_popDelayedMessage_newest(h) ==
    IF h.delayedMessages = <<>>
    THEN [handler |-> h,
          msg |-> [noteNumber |-> -1, velocity |-> -1, timestamp |-> -1]]
    ELSE [handler |-> [h EXCEPT !.delayedMessages =
                                    SubSeq(@, 1, Len(@) - 1)],
          msg |-> h.delayedMessages[Len(h.delayedMessages)]]

\* popDelayedMessage(): the handler after the call, and the message returned
MH_popDelayedMessage(h) ==
    IF h.delayedMessages = <<>>
    THEN [handler |-> h,
          msg |-> [noteNumber |-> -1, velocity |-> -1, timestamp |-> -1]]
    ELSE [handler |-> [h EXCEPT !.delayedMessages = Tail(@)],
          msg |-> Head(h.delayedMessages)]

(***************************************************************************)
(* Calls made on MidiHandler.  mhLog: op, t (the argument of the last      *)
(* update()), moved (messages the last update() transferred), sent (the    *)
(* messages passed to processMidiMessage(), in call order), popped (the    *)
(* messages popDelayedMessage() returned from a nonempty queue, in call    *)
(* order).                                                                 *)
(***************************************************************************)
MidiMaxMessages == 3

MH_delayArgs == {1, 2}

MH_notes == {60, 61}

MH_velocities == {100}

MH_times == 0 .. 2

MhStart ==
    \E d \in MH_delayArgs :
        /\ mh = MH_construct(44100, d)
        /\ mhLog = [op |-> "construct", t |-> 0, moved |-> 0, sent |-> <<>>,
                    popped |-> <<>>]

MhFrame ==
    /\ unit = "midi"
    /\ UNCHANGED <<unit, zdf, zdfLog, dz, dzLog, sc, simd, nlLog, bl, blLog, fx,
                   fxLog, mf, mfLog>>
    /\ UNCHANGED controlVars

MhProcessMidiMessage ==
    /\ MhFrame
    /\ Len(mhLog.sent) < MidiMaxMessages
    /\ \E n \in MH_notes, v \in MH_velocities, t \in MH_times :
          /\ mh' = MH_processMidiMessage(mh, n, v, t)
          /\ mhLog' = [mhLog EXCEPT !.op = "processMidiMessage",
                          !.sent = Append(@, [noteNumber |-> n, velocity |-> v,
                                              timestamp |-> t])]

MhUpdate ==
    /\ MhFrame
    /\ \E t \in MH_times :
          /\ mh' = MH_update(mh, t)
          /\ mhLog' = [mhLog EXCEPT !.op = "update", !.t = t,
                          !.moved = Len(mh'.delayedMessages)
                                      - Len(mh.delayedMessages)]

MhPopDelayedMessage ==
    /\ MhFrame
    /\ mh' = MH_popDelayedMessage(mh).handler
    /\ mhLog' = [mhLog EXCEPT !.op = "popDelayedMessage",
                    !.popped = IF mh.delayedMessages = <<>> THEN @
                               ELSE Append(@, MH_popDelayedMessage(mh).msg)]

(***************************************************************************)
(* VelocityParser (VelocityParser.cpp).                                    *)
(***************************************************************************)
VP_construct(threshold) == [velocityThreshold |-> threshold]

VP_isNoteOn(p, velocity) == velocity > p.velocityThreshold

\* thresholds the constructor is given: it takes any int and checks nothing
VP_thresholds == {-64, -1, 0, 1, 64, 126, 127}

\* velocities of a MIDI data byte
VP_velocities == {0, 1, 64, 65, 127}

VpStart ==
    \E threshold \in VP_thresholds :
        /\ vp = VP_construct(threshold)
        /\ vpLog = [op |-> "construct", velocity |-> 0, result |-> FALSE]

\* the velocity parser is the unit in use; what its actions leave alone
VpFrame ==
    /\ unit = "velocity"
    /\ UNCHANGED <<unit, pf, pfLog, pp, ppLog, rr, rrLog, rd, rdLog>>
    /\ UNCHANGED filterVars

VpIsNoteOn ==
    /\ VpFrame
    /\ \E velocity \in VP_velocities :
          /\ vp' = vp
          /\ vpLog' = [vpLog EXCEPT !.op = "isNoteOn", !.velocity = velocity,
                          !.result = VP_isNoteOn(vp, velocity)]

(***************************************************************************)
(* PortamentoFilter (PortamentoFilter.cpp).                                *)
(***************************************************************************)
PF_construct ==
    [previousNote |-> -1, previousNoteActive |-> FALSE, previousNoteOffTime |-> 0]

\* checkPortamento(): the filter it leaves and the value it returns
PF_checkPortamento(f, newNote, noteOn, currentTimeMs) ==
    IF noteOn
    THEN [filter |-> [f EXCEPT !.previousNoteActive = TRUE,
                               !.previousNote = newNote],
          result |-> f.previousNoteActive /\ f.previousNote # newNote]
    ELSE [filter |-> [f EXCEPT !.previousNoteActive = FALSE,
                               !.previousNoteOffTime = currentTimeMs],
          result |-> FALSE]

\* note events handed to one filter
PfMaxEvents == 4

PF_notes == {60, 62, 64}

\* the timestamp of the k-th event, in ms
PF_time(k) == 5 * k

\* pfLog.last is the note of the latest note-on (-1 before the first) and
\* pfLog.held tells that no note-off for that note came after it; wasLast and
\* wasHeld are their values before the latest call
PfStart ==
    /\ pf = PF_construct
    /\ pfLog = [op |-> "construct", note |-> -1, noteOn |-> FALSE,
                result |-> FALSE, last |-> -1, held |-> FALSE, wasLast |-> -1,
                wasHeld |-> FALSE, n |-> 0]

\* the portamento filter is the unit in use; what its actions leave alone
PfFrame ==
    /\ unit = "portamento-filter"
    /\ UNCHANGED <<unit, vp, vpLog, pp, ppLog, rr, rrLog, rd, rdLog>>
    /\ UNCHANGED filterVars

PfCheckPortamento ==
    /\ PfFrame
    /\ pfLog.n < PfMaxEvents
    /\ \E newNote \in PF_notes, noteOn \in BOOLEAN :
          \E r \in {PF_checkPortamento(pf, newNote, noteOn, PF_time(pfLog.n))} :
              /\ pf' = r.filter
              /\ pfLog' = [op |-> "checkPortamento", note |-> newNote,
                           noteOn |-> noteOn, result |-> r.result,
                           last |-> IF noteOn THEN newNote ELSE pfLog.last,
                           held |-> IF noteOn THEN TRUE
                                    ELSE pfLog.held /\ newNote # pfLog.last,
                           wasLast |-> pfLog.last, wasHeld |-> pfLog.held,
                           n |-> pfLog.n + 1]

(***************************************************************************)
(* PortamentoPlayer (PortamentoPlayer.cpp).  Frequencies are in Hz and     *)
(* times in ms, both at resolution 1/Scale; sampleRate is a whole number.  *)
(***************************************************************************)
\* 2^(k/12) for k = 0 .. 11
SemitoneRatio ==
    <<10000, 10595, 11225, 11892, 12599, 13348, 14142, 14983, 15874, 16818,
      17818, 18877>>

\* 440.0f * powf(2.0f, (midiNote - 69) / 12.0f)
PP_midiToFreq(midiNote) ==
    LET octave == (midiNote - 69) \div 12
        a == IF octave >= 0 THEN 440 * Scale * 2^octave
             ELSE (440 * Scale) \div 2^(-octave)
    IN  Mul(a, SemitoneRatio[((midiNote - 69) % 12) + 1])

\* the constructor leaves currentNote unset: u is the value it happens to hold
PP_construct(sampleRate, defaultPortamentoTimeMs, u) ==
    [sampleRate |-> sampleRate, portamentoTimeMs |-> defaultPortamentoTimeMs,
     currentFreq |-> 0, targetFreq |-> 0, incrementPerSample |-> 0,
     noteIsOn |-> FALSE, currentNote |-> u]

\* (portamentoTimeMs / 1000.0f) * sampleRate, for times below 40 s
PP_portamentoSamples(p) ==
    (p.portamentoTimeMs \div 1000) * p.sampleRate
      + ((p.portamentoTimeMs % 1000) * p.sampleRate) \div 1000

PP_noteOn(p, midiNote, portamentoOn) ==
    LET target == PP_midiToFreq(midiNote)
    IN  IF ~portamentoOn \/ p.currentFreq = 0
        THEN [p EXCEPT !.targetFreq = target, !.currentFreq = target,
                       !.incrementPerSample = 0, !.noteIsOn = TRUE,
                       !.currentNote = midiNote]
        ELSE [p EXCEPT !.targetFreq = target,
                       !.incrementPerSample =
                           DivLong(target - p.currentFreq, PP_portamentoSamples(p)),
                       !.noteIsOn = TRUE, !.currentNote = midiNote]

PP_noteOff(p) == [p EXCEPT !.noteIsOn = FALSE]

\* interpolateFrequency(): the player it leaves and the value it returns
PP_interpolateFrequency(p) ==
    IF p.incrementPerSample = 0
    THEN [player |-> p, out |-> p.currentFreq]
    ELSE IF Abs(p.targetFreq - p.currentFreq) <= Abs(p.incrementPerSample)
    THEN [player |-> [p EXCEPT !.currentFreq = p.targetFreq,
                               !.incrementPerSample = 0],
          out |-> p.targetFreq]
    ELSE [player |-> [p EXCEPT !.currentFreq = @ + p.incrementPerSample],
          out |-> p.currentFreq + p.incrementPerSample]

PP_process(p) ==
    IF p.noteIsOn \/ p.currentFreq # p.targetFreq
    THEN PP_interpolateFrequency(p)
    ELSE [player |-> p, out |-> p.currentFreq]

\* noteOn() calls made on one player
PpMaxNotes == 3

\* A3, A4, A5
PP_notes == {57, 69, 81}

\* sample rates given to the constructor
PP_sampleRates == {48000}

\* portamento time given to the constructor, in ms: 0.1875 ms, 9 samples
PP_timeArgs == {1875}

\* ppLog.out is the value of the latest process() call, ppLog.n the number of
\* noteOn() calls; ppLog.glide tells that the latest noteOn() asked for
\* portamento while the current frequency was not zero, ppLog.arrived that a
\* process() call since that noteOn() has returned the target frequency
PpStart ==
    \E sr \in PP_sampleRates, timeMs \in PP_timeArgs, u \in Indeterminate :
        /\ pp = PP_construct(sr, timeMs, u)
        /\ ppLog = [out |-> 0, glide |-> FALSE, arrived |-> FALSE, n |-> 0]

\* the portamento player is the unit in use; what its actions leave alone
PpFrame ==
    /\ unit = "portamento-player"
    /\ UNCHANGED <<unit, vp, vpLog, pf, pfLog, rr, rrLog, rd, rdLog>>
    /\ UNCHANGED filterVars

\* render() asks for portamento when checkPortamento() returned true, which
\* it does only for a note other than the one of the note-on before
PpNoteOn ==
    /\ PpFrame
    /\ ppLog.n < PpMaxNotes
    /\ \E midiNote \in PP_notes, portamentoOn \in BOOLEAN :
          /\ portamentoOn => midiNote # pp.currentNote
          /\ pp' = PP_noteOn(pp, midiNote, portamentoOn)
          /\ ppLog' = [ppLog EXCEPT !.glide = portamentoOn /\ pp.currentFreq # 0,
                          !.arrived = FALSE, !.n = @ + 1]

PpNoteOff ==
    /\ PpFrame
    /\ pp' = PP_noteOff(pp)
    /\ ppLog' = ppLog

\* one audio frame: render() calls process() on every frame
PpProcess ==
    /\ PpFrame
    /\ \E r \in {PP_process(pp)} :
          /\ pp' = r.player
          /\ ppLog' = [ppLog EXCEPT !.out = r.out,
                          !.arrived = @ \/ r.out = r.player.targetFreq]

(***************************************************************************)
(* ResonanceRamp (ResonanceRamp.cpp).  Values are at resolution 1/Scale,   *)
(* the ramp time is in ms at resolution 1/Scale.                           *)
(***************************************************************************)
\* rampTimeMs * 0.001f * sampleRate, for times below 40 s
RR_rampSamples(rate, rampTimeMs) ==
    (rampTimeMs \div 1000) * rate + ((rampTimeMs % 1000) * rate) \div 1000

RR_construct(rate, rampTimeMs) ==
    [sampleRate |-> rate, currentValue |-> Scale \div 2,
     targetValue |-> Scale \div 2,
     incrementPerSample |-> DivLong(Scale, RR_rampSamples(rate, rampTimeMs))]

RR_setTarget(r, targetRes) == [r EXCEPT !.targetValue = targetRes]

\* process() without the two overshoot corrections
RR_process_uncorrected(r) ==
    IF r.currentValue < r.targetValue
    THEN [r EXCEPT !.currentValue = @ + r.incrementPerSample]
    ELSE IF r.currentValue > r.targetValue
    THEN [r EXCEPT !.currentValue = @ - r.incrementPerSample]
    ELSE r

\* process(): the ramp it leaves; the value it returns is its currentValue
RR_process(r) ==
    IF r.currentValue < r.targetValue
    THEN IF r.currentValue + r.incrementPerSample > r.targetValue
         THEN [r EXCEPT !.currentValue = r.targetValue]
         ELSE [r EXCEPT !.currentValue = @ + r.incrementPerSample]
    ELSE IF r.currentValue > r.targetValue
    THEN IF r.currentValue - r.incrementPerSample < r.targetValue
         THEN [r EXCEPT !.currentValue = r.targetValue]
         ELSE [r EXCEPT !.currentValue = @ - r.incrementPerSample]
    ELSE r

\* setTarget() calls made on one ramp
RrMaxTargets == 2

\* ramp times given to the constructor, in ms: 1 ms and 2 ms
RR_rampTimes == {Scale, 2 * Scale}

\* targets: value / 127.0f of a controller, 0.7f, an analog input in [0, 1]
RR_targets == {0, 7000, Scale}

\* sample rates given to the constructor
RR_sampleRates == {44100}

\* rrLog.from is currentValue at the latest setTarget(), rrLog.calls the number
\* of process() calls since then that found currentValue off the target,
\* rrLog.step the distance the latest process() call moved currentValue, and
\* rrLog.arrived tells that a call since that setTarget() returned the target
RrStart ==
    \E sr \in RR_sampleRates, rampTimeMs \in RR_rampTimes :
        /\ rr = RR_construct(sr, rampTimeMs)
        /\ rrLog = [op |-> "construct", out |-> Scale \div 2,
                    from |-> Scale \div 2, rampTimeMs |-> rampTimeMs,
                    step |-> 0, calls |-> 0, arrived |-> FALSE, n |-> 0]

\* the resonance ramp is the unit in use; what its actions leave alone
RrFrame ==
    /\ unit = "ramp"
    /\ UNCHANGED <<unit, vp, vpLog, pf, pfLog, pp, ppLog, rd, rdLog>>
    /\ UNCHANGED filterVars

RrSetTarget ==
    /\ RrFrame
    /\ rrLog.n < RrMaxTargets
    /\ \E targetRes \in RR_targets :
          /\ rr' = RR_setTarget(rr, targetRes)
          /\ rrLog' = [rrLog EXCEPT !.op = "setTarget", !.from = rr.currentValue,
                          !.calls = 0, !.arrived = FALSE, !.n = @ + 1]

\* one audio frame: process() is called once per sample
RrProcess ==
    /\ RrFrame
    /\ \E r \in {RR_process(rr)} :
          /\ rr' = r
          /\ rrLog' = [rrLog EXCEPT !.op = "process", !.out = r.currentValue,
                          !.step = Abs(r.currentValue - rr.currentValue),
                          !.calls = IF rr.currentValue # rr.targetValue
                                    THEN @ + 1 ELSE @,
                          !.arrived = @ \/ r.currentValue = r.targetValue]

(***************************************************************************)
(* render() of render.cpp: the audio section, the two loops over the       *)
(* frames of one buffer.  The values the other collaborators hand to it    *)
(* (the filter envelope's cutoff, the oscillator sample, the analog        *)
(* inputs) are inputs; resonanceRamp and zdfFilter are the objects         *)
(* themselves.  The MIDI section before the loops reaches these two only   *)
(* through resonanceRamp.setTarget(), which the first frame overrides      *)
(* before the ramp is read.                                                *)
(***************************************************************************)
\* context->audioFrames
audioFrames == 2

\* context->audioFrames / context->analogFrames
gAudioFramesPerAnalogFrame == 2

\* the parameters process() works with
RD_parameters(f) ==
    [G |-> f.G, feedbackGain |-> f.feedbackGain, mode |-> f.mode,
     drive |-> f.drive]

\* setup(): the filter and the ramp it leaves
RD_setupFilter(sampleRate, u) ==
    ZDF_setMode(
        ZDF_setDrive(
            ZDF_setResonance(
                ZDF_setCutoff(ZDF_reset(ZDF_construct(sampleRate, u)), 1000),
                Scale \div 2),
            Scale),
        0)

RD_setupRamp == RR_setTarget(RR_construct(44100, 50 * Scale), Scale \div 2)

\* frames 0 .. n-1 of the first loop: s holds zdf, rr, outGain, inputBuffer
\* and set, the parameters the filter was given on each frame
RECURSIVE RD_synthesis(_, _, _, _)
RD_synthesis(s, analog, frame, n) ==
    IF n = 0 THEN s
    ELSE LET p == RD_synthesis(s, analog, frame, n - 1)
             a == analog[((n - 1) \div gAudioFramesPerAnalogFrame) + 1]
             ramp == RR_process(RR_setTarget(p.rr, a.resonancePot))
             cutoffHz == IDiv(frame[n].filterCutoff * (2000 + a.cutoffPot), Scale)
             mode == IDiv(3 * a.modePot, Scale)
             f == ZDF_setDrive(
                      ZDF_setMode(
                          ZDF_setResonance(ZDF_setCutoff(p.zdf, cutoffHz),
                                           ramp.currentValue),
                          mode),
                      a.drive)
         IN  [zdf |-> f, rr |-> ramp, outGain |-> 2 * a.gainPot,
              inputBuffer |-> [p.inputBuffer EXCEPT ![n] = frame[n].oscillatorOut],
              set |-> Append(p.set, RD_parameters(f))]

\* frames 0 .. n-1 of the second loop: s holds zdf, outputBuffer and used, the
\* parameters the filter held at each process() call
RECURSIVE RD_filtering(_, _, _, _)
RD_filtering(s, inputBuffer, outGain, n) ==
    IF n = 0 THEN s
    ELSE LET p == RD_filtering(s, inputBuffer, outGain, n - 1)
             r == ZDF_process(p.zdf, inputBuffer[n])
         IN  [zdf |-> r.filter,
              outputBuffer |-> [p.outputBuffer EXCEPT ![n] = Mul(r.out, outGain)],
              used |-> Append(p.used, RD_parameters(p.zdf))]

\* render() calls made
RdMaxCalls == 2

\* analog inputs of one analog frame
RD_analogInputs ==
    {[cutoffPot |-> Scale \div 2, resonancePot |-> Scale \div 2, modePot |-> 0,
      gainPot |-> Scale \div 2, drive |-> Scale],
     [cutoffPot |-> Scale, resonancePot |-> Scale, modePot |-> Scale \div 2,
      gainPot |-> 2500, drive |-> 0],
     [cutoffPot |-> 0, resonancePot |-> Scale \div 2, modePot |-> Scale,
      gainPot |-> Scale \div 2, drive |-> Scale]}

\* what the filter envelope and the oscillator hand to one audio frame
RD_frameInputs ==
    {[filterCutoff |-> 1000, oscillatorOut |-> Scale \div 2],
     [filterCutoff |-> 5000, oscillatorOut |-> -2500]}

\* the state after setup(); the buffers come from new float[] and hold u
RdStart ==
    \E sr \in SampleRates, u \in Indeterminate :
        /\ zdf = RD_setupFilter(sr, u)
        /\ rr = RD_setupRamp
        /\ rd = [outGain |-> 0, inputBuffer |-> [n \in 1 .. audioFrames |-> u],
                 outputBuffer |-> [n \in 1 .. audioFrames |-> u]]
        /\ rdLog = [op |-> "setup", set |-> <<>>, used |-> <<>>, n |-> 0]

\* the audio callback is the unit in use; what its actions leave alone
RdFrame ==
    /\ unit = "render"
    /\ UNCHANGED <<unit, zdfLog, dz, dzLog, sc, simd, nlLog, bl, blLog, fx, fxLog,
                   mf, mfLog, mh, mhLog, vp, vpLog, pf, pfLog, pp, ppLog, rrLog>>

RdRender ==
    /\ RdFrame
    /\ rdLog.n < RdMaxCalls
    /\ \E analog \in [1 .. (audioFrames \div gAudioFramesPerAnalogFrame)
                        -> RD_analogInputs],
          frame \in [1 .. audioFrames -> RD_frameInputs] :
          \E s \in {RD_synthesis([zdf |-> zdf, rr |-> rr, outGain |-> rd.outGain,
                                  inputBuffer |-> rd.inputBuffer, set |-> <<>>],
                                 analog, frame, audioFrames)} :
          \E t \in {RD_filtering([zdf |-> s.zdf, outputBuffer |-> rd.outputBuffer,
                                  used |-> <<>>],
                                 s.inputBuffer, s.outGain, audioFrames)} :
              /\ zdf' = t.zdf
              /\ rr' = s.rr
              /\ rd' = [outGain |-> s.outGain, inputBuffer |-> s.inputBuffer,
                        outputBuffer |-> t.outputBuffer]
              /\ rdLog' = [op |-> "render", set |-> s.set, used |-> t.used,
                           n |-> rdLog.n + 1]

\* the value of the variables of a class that is not instantiated
NoObject == [class |-> "none"]

ZdfAbsent == zdf = NoObject /\ zdfLog = NoObject

DzAbsent == dz = NoObject /\ dzLog = NoObject

NlAbsent == sc = NoObject /\ simd = NoObject /\ nlLog = NoObject

BlAbsent == bl = NoObject /\ blLog = NoObject

FxAbsent == fx = NoObject /\ fxLog = NoObject

MfAbsent == mf = NoObject /\ mfLog = NoObject

MhAbsent == mh = NoObject /\ mhLog = NoObject

VpAbsent == vp = NoObject /\ vpLog = NoObject

PfAbsent == pf = NoObject /\ pfLog = NoObject

PpAbsent == pp = NoObject /\ ppLog = NoObject

RrAbsent == rr = NoObject /\ rrLog = NoObject

RdAbsent == rd = NoObject /\ rdLog = NoObject

FiltersAbsent ==
    /\ ZdfAbsent /\ DzAbsent /\ NlAbsent /\ BlAbsent /\ FxAbsent /\ MfAbsent
    /\ MhAbsent

ControlAbsent == VpAbsent /\ PfAbsent /\ PpAbsent /\ RrAbsent /\ RdAbsent

Init ==
    \/ /\ unit \in {"zdf-params", "zdf"}
       /\ ZdfStart /\ DzAbsent /\ NlAbsent /\ BlAbsent /\ FxAbsent
          /\ MfAbsent /\ MhAbsent
          /\ ControlAbsent
    \/ /\ unit = "zdf-dev"
       /\ DzStart /\ ZdfAbsent /\ NlAbsent /\ BlAbsent /\ FxAbsent
          /\ MfAbsent /\ MhAbsent
          /\ ControlAbsent
    \/ /\ unit \in {"nl-params", "nl", "nl-quiet"}
       /\ NlStart /\ ZdfAbsent /\ DzAbsent /\ BlAbsent /\ FxAbsent
          /\ MfAbsent /\ MhAbsent
          /\ ControlAbsent
    \/ /\ unit = "bilinear"
       /\ BlStart /\ ZdfAbsent /\ DzAbsent /\ NlAbsent /\ FxAbsent
          /\ MfAbsent /\ MhAbsent
          /\ ControlAbsent
    \/ /\ unit = "fixed"
       /\ FxStart /\ ZdfAbsent /\ DzAbsent /\ NlAbsent /\ BlAbsent
          /\ MfAbsent /\ MhAbsent
          /\ ControlAbsent
    \/ /\ unit = "neon"
       /\ MfStart /\ ZdfAbsent /\ DzAbsent /\ NlAbsent /\ BlAbsent /\ FxAbsent
          /\ MhAbsent
          /\ ControlAbsent
    \/ /\ unit = "midi"
       /\ MhStart /\ ZdfAbsent /\ DzAbsent /\ NlAbsent /\ BlAbsent /\ FxAbsent
          /\ MfAbsent
          /\ ControlAbsent
    \/ /\ unit = "velocity"
       /\ VpStart /\ FiltersAbsent
          /\ PfAbsent /\ PpAbsent /\ RrAbsent /\ RdAbsent
    \/ /\ unit = "portamento-filter"
       /\ PfStart /\ FiltersAbsent
          /\ VpAbsent /\ PpAbsent /\ RrAbsent /\ RdAbsent
    \/ /\ unit = "portamento-player"
       /\ PpStart /\ FiltersAbsent
          /\ VpAbsent /\ PfAbsent /\ RrAbsent /\ RdAbsent
    \/ /\ unit = "ramp"
       /\ RrStart /\ FiltersAbsent
          /\ VpAbsent /\ PfAbsent /\ PpAbsent /\ RdAbsent
    \/ /\ unit = "render"
       /\ RdStart /\ zdfLog = NoObject /\ rrLog = NoObject
          /\ DzAbsent /\ NlAbsent /\ BlAbsent /\ FxAbsent /\ MfAbsent
          /\ MhAbsent /\ VpAbsent /\ PfAbsent /\ PpAbsent

Next ==
    \/ ZdfSetCutoff
    \/ ZdfSetResonance
    \/ ZdfSetMode
    \/ ZdfSetDrive
    \/ ZdfReset
    \/ ZdfProcess
    \/ DzSetCutoff
    \/ DzSetResonance
    \/ DzReset
    \/ DzProcess
    \/ NlSetSampleRate
    \/ NlSetParams
    \/ NlReset
    \/ NlProcess
    \/ BlSetSampleRate
    \/ BlSetCutoff
    \/ BlSetResonance
    \/ BlProcess
    \/ FxSetCutoff
    \/ FxSetResonance
    \/ FxReset
    \/ FxProcess
    \/ MfSetCutoff
    \/ MfSetResonance
    \/ MfReset
    \/ MfProcess
    \/ MfProcessBlockSIMD
    \/ MhProcessMidiMessage
    \/ MhUpdate
    \/ MhPopDelayedMessage
    \/ VpIsNoteOn
    \/ PfCheckPortamento
    \/ PpNoteOn
    \/ PpNoteOff
    \/ PpProcess
    \/ RrSetTarget
    \/ RrProcess
    \/ RdRender

Spec == Init /\ [][Next]_vars

(***************************************************************************)
(* The portamento player and the resonance ramp under the audio callback:  *)
(* render() calls process() of both on every audio frame, so a process()   *)
(* call that can change the state is eventually taken.                     *)
(***************************************************************************)
GlideInit == Init /\ unit = "portamento-player"

GlideNext ==
    \/ PpNoteOn
    \/ PpNoteOff
    \/ PpProcess

GlideSpec == GlideInit /\ [][GlideNext]_vars /\ WF_vars(PpProcess)

RampInit == Init /\ unit = "ramp"

RampNext ==
    \/ RrSetTarget
    \/ RrProcess

RampSpec == RampInit /\ [][RampNext]_vars /\ WF_vars(RrProcess)


(***************************************************************************)
(* Properties.                                                             *)
(***************************************************************************)
MaxCutoff(f) == IDiv(45 * f.sampleRate, 100)

\* the two process() calls of the pair agree in every lane within 1e-4
NL_lanesAgree ==
    \A l \in Lanes : Abs(nlLog.simdOut[l] - nlLog.scOut) <= Scale \div 10^4

\* C1: with the same sample rate, cutoff, resonance and mode in every lane and
\* the same inputs since reset(), MoogLadderFilterSIMD::process returns in
\* each lane the value MoogLadderFilterScalar::process returns, within 1e-4,
\* at every sample index and for every mode 0..5.
C1_SimdAgreesWithScalar ==
    (unit = "nl" /\ nlLog.op = "process" /\ sc.mode \in 0 .. 5) => NL_lanesAgree

\* C2: in the fixed-point backend, with cutoff and resonance set through the
\* setters, reset() followed by process(0) calls only does not leave the four
\* stage registers at 0 throughout: by the last of the calls some call has
\* left a stage register nonzero.
C2_OffsetKeepsStateAlive ==
    ( /\ unit = "fixed"
      /\ fxLog.cutSet /\ fxLog.resSet
      /\ fxLog.onlyZeros /\ fxLog.zeros = FxMaxSamples ) => fxLog.moved

\* C3: in the nonlinear family, process() with a mode outside 0..5 returns
\* exactly the value it returns for LP24 (mode 0) from the same state,
\* parameters and input.
C3_UnknownModeIsLP24 ==
    (unit = "nl" /\ nlLog.op = "process" /\ sc.mode \notin 0 .. 5)
        => nlLog.scOut = nlLog.lp24

\* C4: ZDF setMode(m) with m outside {0,1,2} leaves the mode unchanged: the
\* mode is always the most recent valid setMode argument (LP24 if there was
\* none) and is one of LP24, BP12, HP24.
C4_ModeIsLastValidArgument ==
    unit \in {"zdf-params", "zdf"} =>
        /\ zdf.mode = zdfLog.validMode
        /\ zdf.mode \in {LP24, BP12, HP24}

\* an invalid setMode argument has just been ignored while a non-default mode
\* was selected
C4_Witness ==
    /\ unit = "zdf-params"
    /\ zdfLog.op = "setMode"
    /\ zdfLog.arg \in {-2, 4}
    /\ zdf.mode = BP12

\* C5: after construction and any sequence of ZDF setter calls, the cutoff G
\* is derived from lies in [20, 0.45 * sampleRate] and resonance and drive
\* lie in [0, 1].
C5_ParametersInRange ==
    unit \in {"zdf-params", "zdf"} =>
        /\ zdfLog.cutoffHz >= 20
        /\ zdfLog.cutoffHz <= MaxCutoff(zdf)
        /\ zdf.G = ZDF_warp(zdfLog.cutoffHz, zdf.sampleRate)
        /\ zdf.resonance >= 0 /\ zdf.resonance <= Scale
        /\ zdf.drive >= 0 /\ zdf.drive <= Scale

\* every parameter has been set from an argument beyond its upper bound
C5_Witness ==
    /\ unit = "zdf-params"
    /\ zdfLog.op = "setDrive" /\ zdfLog.arg = 2 * Scale /\ zdf.drive = Scale
    /\ zdfLog.resArg > Scale /\ zdf.resonance = Scale
    /\ zdfLog.cutoffArg = zdf.sampleRate /\ zdfLog.cutoffHz = MaxCutoff(zdf)

\* C6: in the fixed-point, bilinear-transform and nonlinear scalar variants,
\* once the cutoff has been set through setCutoff / setParams, and after any
\* later setSampleRate, the cutoff the filter works with lies in
\* [20, 0.45 * sampleRate].
C6_CutoffWithinDocumentedBound ==
    /\ (unit = "fixed" /\ fxLog.cutSet) =>
           fx.fc >= 20 /\ fx.fc <= MaxCutoff(fx)
    /\ unit = "bilinear" =>
           bl.cutoff >= 20 /\ bl.cutoff <= MaxCutoff(bl)
    /\ (unit \in {"nl-params", "nl"} /\ nlLog.cutSet) =>
           sc.fc >= 20 * Scale /\ sc.fc <= IDiv(45 * sc.sr, 100) * Scale

\* C7: the ZDF coefficients are never stale: feedbackGain is 4 times the
\* clamped last resonance argument and G is tan(pi * cutoff / sampleRate) of
\* the clamped last cutoff argument, whatever the order of the setter calls.
C7_CoefficientsNeverStale ==
    unit \in {"zdf-params", "zdf"} =>
        /\ zdf.resonance = clamp_float(zdfLog.resArg, 0, Scale)
        /\ zdf.feedbackGain = 4 * zdf.resonance
        /\ zdf.G = ZDF_warp(clamp_float(zdfLog.cutoffArg, 20, MaxCutoff(zdf)),
                            zdf.sampleRate)

\* resonance was changed after the last setCutoff, to a value other than the
\* constructor's, and the cutoff is not the constructor's either
C7_Witness ==
    /\ unit = "zdf-params"
    /\ zdfLog.op = "setResonance"
    /\ zdfLog.resArg = 2500
    /\ zdfLog.cutoffArg = zdf.sampleRate \div 2

ZDF_coefficients(f) == <<f.G, f.feedbackGain>>

DZ_coefficients(f) == <<f.G, f.feedbackGain>>

Fixed_coefficients(f) == <<f.alpha, f.feedbackAmount>>

\* one call obeys the clamp-idempotence relations of C8
ClampIdempotentStep ==
    /\ (unit = "zdf-params" /\ zdfLog'.op = "setCutoff") =>
       /\ zdfLog'.rep => ZDF_coefficients(zdf') = ZDF_coefficients(zdf)
       /\ zdfLog'.arg = -100 =>
             ZDF_coefficients(zdf') = ZDF_coefficients(ZDF_setCutoff(zdf, 20))
       /\ zdfLog'.arg = zdf.sampleRate =>
             ZDF_coefficients(zdf') =
                 ZDF_coefficients(ZDF_setCutoff(zdf, MaxCutoff(zdf)))
    /\ (unit = "zdf-dev" /\ dzLog'.op = "setCutoff") =>
       /\ dzLog'.rep => DZ_coefficients(dz') = DZ_coefficients(dz)
       /\ dzLog'.arg = -100 =>
             DZ_coefficients(dz') = DZ_coefficients(DZ_setCutoff(dz, 20))
       /\ dzLog'.arg = dz.sampleRate =>
             DZ_coefficients(dz') =
                 DZ_coefficients(DZ_setCutoff(dz, MaxCutoff(dz)))
    /\ (unit = "fixed" /\ fxLog'.op = "setCutoff") =>
       /\ fxLog'.rep => Fixed_coefficients(fx') = Fixed_coefficients(fx)
       /\ fxLog'.arg = -100 =>
             Fixed_coefficients(fx') =
                 Fixed_coefficients(Fixed_setCutoff(fx, 20))
       /\ fxLog'.arg = fx.sampleRate =>
             Fixed_coefficients(fx') =
                 Fixed_coefficients(Fixed_setCutoff(fx, MaxCutoff(fx)))


C9_ZeroAfterConstructionAndReset ==
    /\ (unit \in {"zdf-params", "zdf"} /\ zdfLog.op \in {"construct", "reset"}) =>
           zdf.stage = Zero4 /\ zdf.z = Zero4
    /\ (unit = "zdf-dev" /\ dzLog.op \in {"construct", "reset"}) =>
           dz.stage = <<0, 0, 0, 0>> /\ dz.z = <<0, 0, 0, 0>>
    /\ (unit \in {"nl-params", "nl"} /\ nlLog.op \in {"construct", "reset"}) =>
           /\ \A r \in {sc.s1, sc.s2, sc.s3, sc.s4, sc.s5, sc.s6, sc.s7, sc.s8,
                        sc.slim, sc.previn} : r = 0
           /\ \A r \in {simd.s1, simd.s2, simd.s3, simd.s4, simd.s5, simd.s6,
                        simd.s7, simd.s8, simd.slim, simd.previn} :
                  r = vdupq_n_f32(0)
    /\ (unit = "fixed" /\ fxLog.op \in {"construct", "reset"}) =>
           fx.s = <<0, 0, 0, 0>> /\ fx.prevIn = 0
    /\ (unit = "bilinear" /\ blLog.op = "construct") => bl.y = <<0, 0, 0, 0>>

\* reset() has just been called on a ZDF filter whose last process() call
\* returned a nonzero value
C9_Witness ==
    /\ unit = "zdf"
    /\ zdfLog.op = "reset"
    /\ zdfLog.n >= 1 /\ zdfLog.out # 0
    /\ zdf.stage = Zero4 /\ zdf.z = Zero4

\* C10: with the same parameters in force, the first process(x) after a
\* reset() returns what process(x) returns from the all-zero state, whatever
\* was processed before the reset.
C10_ResetDeterminism ==
    /\ (unit = "zdf" /\ zdfLog.op = "process" /\ zdfLog.since = 1) =>
           zdfLog.out =
               ZDF_process([zdf EXCEPT !.stage = Zero4, !.z = Zero4], zdfLog.x).out
    /\ (unit = "zdf-dev" /\ dzLog.op = "process" /\ dzLog.since = 1) =>
           dzLog.out =
               DZ_process([dz EXCEPT !.stage = <<0, 0, 0, 0>>,
                                     !.z = <<0, 0, 0, 0>>], dzLog.x).out
    /\ (unit = "nl" /\ nlLog.op = "process" /\ nlLog.since = 1) =>
           \A in4 \in NL_in4 :
               nlLog.scOut =
                   Scalar_process(
                       [Scalar_construct(sc.sr, 0) EXCEPT !.rc = sc.rc,
                           !.fc = sc.fc, !.mode = sc.mode],
                       nlLog.in1, nlLog.in3, in4).out

\* the scalar filter processed a nonzero sample, was reset, and has returned
\* a nonzero value for the first sample after the reset
C10_Witness ==
    /\ unit = "nl"
    /\ nlLog.op = "process"
    /\ nlLog.since = 1 /\ nlLog.n = 2
    /\ nlLog.scOut # 0

(***************************************************************************)
(* C11: the mode selects among values process() has already computed and   *)
(* reaches no register.  From every filter on which process() is called,   *)
(* an instance that differs in mode only is left by process(), whatever    *)
(* the input, with the same registers as the filter itself; two instances  *)
(* given the same parameters and inputs but different modes therefore hold *)
(* the same registers after every call.                                    *)
(***************************************************************************)
ZDF_modes == {LP24, BP12, HP24}

Scalar_modes == -1 .. 6

C11_ModeLeavesRegistersAlone ==
    /\ (unit = "zdf" /\ zdfLog.n < ZdfMaxSamples) =>
           \A m \in ZDF_modes, x \in Inputs :
               ZDF_process([zdf EXCEPT !.mode = m], x).filter =
                   [ZDF_process(zdf, x).filter EXCEPT !.mode = m]
    /\ (unit = "nl" /\ nlLog.n < NlMaxSamples) =>
           \A m \in Scalar_modes, in1 \in NL_in1, in3 \in NL_in3, in4 \in NL_in4 :
               Scalar_process([sc EXCEPT !.mode = m], in1, in3, in4).filter =
                   [Scalar_process(sc, in1, in3, in4).filter EXCEPT !.mode = m]

\* a filter in high-pass mode has processed a sample: the value returned is
\* not the low-pass one, and the registers are nonzero
C11_Witness ==
    /\ unit = "zdf"
    /\ zdfLog.op = "process"
    /\ zdf.mode = HP24
    /\ zdfLog.out # zdf.stage[4]
    /\ zdf.stage[4] # 0

(***************************************************************************)
(* C12: after process() of the dual-iteration filter, the stage registers  *)
(* s1..s4 hold the stage values of the second pass (expr37, expr39,        *)
(* expr44, expr49), which nlLog.pass2 records for the call just made.      *)
(***************************************************************************)
C12_StoredStagesArePass2 ==
    (unit = "nl" /\ nlLog.op = "process") =>
        <<sc.s1, sc.s2, sc.s3, sc.s4>> = nlLog.pass2

(***************************************************************************)
(* C13: after process() no register of the filter holds a nonzero value    *)
(* under the threshold of the denormal guard.                              *)
(***************************************************************************)
Scalar_registers(f) ==
    <<f.previn, f.slim, f.s1, f.s2, f.s3, f.s4, f.s5, f.s6, f.s7, f.s8>>

C13_RegistersPassedTheGuard ==
    (unit \in {"nl", "nl-quiet"} /\ nlLog.op = "process") =>
        \A i \in 1 .. 10 :
            fixdenorm_signal(Scalar_registers(sc)[i]) = Scalar_registers(sc)[i]

(***************************************************************************)
(* C14: the feedback term process() subtracted from its input is the one   *)
(* formed from the stage-4 value of that same call, which is the value     *)
(* stage[3] holds when the call returns.                                   *)
(***************************************************************************)
C14_FeedbackFromSameSample ==
    /\ (unit = "zdf" /\ zdfLog.op = "process") =>
           zdfLog.fbTerm = Mul(zdf.feedbackGain, ZDF_feedback(zdf))
    /\ (unit = "zdf-dev" /\ dzLog.op = "process") =>
           dzLog.fbTerm = Mul(dz.feedbackGain, dz.stage[4])

(***************************************************************************)
(* C15: the feedback sample of process() is tanhf(stage[3] * drive) for    *)
(* every stored drive above 0, and stage[3] itself when drive is 0.        *)
(***************************************************************************)
C15_FeedbackSaturatedWhenDriven ==
    (unit = "zdf" /\ zdfLog.op = "process") =>
        zdfLog.fb = IF zdf.drive > 0 THEN tanhf(Mul(zdfLog.prev4, zdf.drive))
                    ELSE zdfLog.prev4

(***************************************************************************)
(* C16: once the fixed-point filter has its parameters, every shift,       *)
(* product and sum of setCutoff() and of process() is representable in a   *)
(* signed 32-bit int.                                                      *)
(***************************************************************************)
C16_FixedPointStaysIn32Bits ==
    /\ (unit = "fixed" /\ fxLog.op = "setCutoff") => fxLog.fits
    /\ (unit = "fixed" /\ fxLog.op = "process" /\ fxLog.cutSet /\ fxLog.resSet) =>
           fxLog.fits

(***************************************************************************)
(* C17: processBlockSIMD() writes the outputs, and leaves the delay[]      *)
(* state, of the loop of process() calls on the same input from the same   *)
(* state.  The reciprocal of neon_divide_f32 carries the four digits of    *)
(* the resolution, so the two are compared to within DivisionSlack, which  *)
(* the first sample of every block of four meets (C17_FirstLaneAgrees).    *)
(***************************************************************************)
DivisionSlack == 50

C17_BlockSIMDMatchesProcess ==
    (unit = "neon" /\ mfLog.op = "processBlockSIMD") =>
        /\ \A i \in 1 .. Len(mfLog.input) :
               Abs(mfLog.out[i] - mfLog.ref.out[i]) <= DivisionSlack
        /\ \A j \in 1 .. 4 :
               Abs(mf.delay[j] - mfLog.ref.filter.delay[j]) <= DivisionSlack

C17_FirstLaneAgrees ==
    (unit = "neon" /\ mfLog.op = "processBlockSIMD") =>
        Abs(mfLog.out[1] - mfLog.ref.out[1]) <= DivisionSlack

(***************************************************************************)
(* C18: whatever the order of the calls, the messages popDelayedMessage()  *)
(* has returned are the first messages passed to processMidiMessage(), in  *)
(* the order they were passed.                                             *)
(***************************************************************************)
C18_PoppedInArrivalOrder ==
    unit = "midi" =>
        /\ Len(mhLog.popped) <= Len(mhLog.sent)
        /\ mhLog.popped = SubSeq(mhLog.sent, 1, Len(mhLog.popped))

\* two different messages have been returned, the second one while a third
\* message was still waiting in the incoming queue
C18_Witness ==
    /\ unit = "midi"
    /\ mhLog.op = "popDelayedMessage"
    /\ Len(mhLog.popped) = 2
    /\ mhLog.popped[1] # mhLog.popped[2]
    /\ mh.incomingMessages # <<>>

(***************************************************************************)
(* C19: the delayed queue gains messages in update(t) alone, at its back,  *)
(* and each message it gains has t - timestamp >= delayTimeMs; every other *)
(* step leaves the queue as it is or removes its front.                    *)
(***************************************************************************)
DelayedGainsOnlyDueMessages ==
    unit = "midi" =>
        \/ mh'.delayedMessages = mh.delayedMessages
        \/ /\ mh.delayedMessages # <<>>
           /\ mh'.delayedMessages = Tail(mh.delayedMessages)
        \/ /\ mhLog'.op = "update"
           /\ Len(mh'.delayedMessages) > Len(mh.delayedMessages)
           /\ \A i \in 1 .. Len(mh'.delayedMessages) :
                 IF i <= Len(mh.delayedMessages)
                 THEN mh'.delayedMessages[i] = mh.delayedMessages[i]
                 ELSE mhLog'.t - mh'.delayedMessages[i].timestamp
                          >= mh.delayTimeMs

C19_EntersDelayedQueueOnlyWhenDue == [][DelayedGainsOnlyDueMessages]_vars

\* an update() has transferred a message and left a later one waiting
C19_Witness ==
    /\ unit = "midi"
    /\ mhLog.op = "update"
    /\ mhLog.moved >= 1
    /\ mh.incomingMessages # <<>>
    /\ mhLog.t - Head(mh.incomingMessages).timestamp < mh.delayTimeMs

(***************************************************************************)
(* C20: when the timestamps passed to processMidiMessage() were            *)
(* non-decreasing, update(t) leaves no message with                        *)
(* t - timestamp >= delayTimeMs in the incoming queue.                     *)
(***************************************************************************)
MH_nonDecreasing(s) ==
    \A i \in 1 .. Len(s) - 1 : s[i].timestamp <= s[i + 1].timestamp

C20_NoDueMessageLeftBehind ==
    (unit = "midi" /\ mhLog.op = "update" /\ MH_nonDecreasing(mhLog.sent)) =>
        \A i \in 1 .. Len(mh.incomingMessages) :
            mhLog.t - mh.incomingMessages[i].timestamp < mh.delayTimeMs

\* one update() has transferred two messages and left a third, later one
C20_Witness ==
    /\ unit = "midi"
    /\ mhLog.op = "update"
    /\ MH_nonDecreasing(mhLog.sent)
    /\ mhLog.moved = 2
    /\ Len(mh.incomingMessages) = 1

(***************************************************************************)
(* C21: for every threshold a VelocityParser can be constructed with,      *)
(* isNoteOn(0) returns false: velocity 0 is always a note-off.             *)
(***************************************************************************)
C21_VelocityZeroIsNoteOff ==
    (unit = "velocity" /\ vpLog.op = "isNoteOn" /\ vpLog.velocity = 0)
        => ~vpLog.result

(***************************************************************************)
(* C22: checkPortamento(n, true, t) returns true exactly when the note     *)
(* triggered before it is still held (no note-off for that note has been   *)
(* processed since its note-on) and n differs from it; every other call,   *)
(* every note-off call included, returns false.                            *)
(***************************************************************************)
C22_PortamentoIffPreviousNoteHeld ==
    (unit = "portamento-filter" /\ pfLog.op = "checkPortamento")
        => (pfLog.result <=>
               /\ pfLog.noteOn
               /\ pfLog.wasLast # -1
               /\ pfLog.wasHeld
               /\ pfLog.note # pfLog.wasLast)

(***************************************************************************)
(* C23: after noteOn(n, true) with a nonzero current frequency, repeated   *)
(* process() calls reach exactly targetFreq after finitely many calls, and *)
(* from then on return targetFreq unchanged until the next noteOn,         *)
(* whether or not noteOff() is called during the glide.                    *)
(***************************************************************************)
C23_GlideReachesAndHoldsTarget ==
    /\ [](ppLog.glide => <>ppLog.arrived)
    /\ [](ppLog.arrived => ppLog.out = pp.targetFreq)

(***************************************************************************)
(* C24: after setTarget(t), and with no further setTarget call, repeated   *)
(* process() calls bring the returned value to exactly t after finitely    *)
(* many calls, never passing t on the way, and every later process() call  *)
(* returns t.                                                              *)
(***************************************************************************)
RR_between(a, x, b) == (a <= x /\ x <= b) \/ (b <= x /\ x <= a)

C24_RampReachesTargetWithoutPassing ==
    /\ [](rrLog.op = "setTarget" => <>rrLog.arrived)
    /\ [](rrLog.op = "process" => RR_between(rrLog.from, rrLog.out, rr.targetValue))
    /\ [](rrLog.arrived => rrLog.out = rr.targetValue)

\* a ramp whose last step was cut short at the target, reached after several
\* process() calls
C24_Witness ==
    /\ unit = "ramp"
    /\ rrLog.op = "process"
    /\ rrLog.arrived
    /\ rrLog.calls >= 2
    /\ rrLog.out = rr.targetValue
    /\ (rr.targetValue - rrLog.from) % rr.incrementPerSample # 0

(***************************************************************************)
(* C25: after setTarget(t) the ramp advances by                            *)
(* (t - current) / (ramp_time * sample_rate) per sample, so the transition *)
(* from the current value to t completes in the configured ramp time       *)
(* whatever the distance between them.                                     *)
(***************************************************************************)
C25_RampTakesTheConfiguredTime ==
    (unit = "ramp" /\ rrLog.op = "process" /\ rrLog.calls >= 1)
        => \E samples \in {RR_rampSamples(rr.sampleRate, rrLog.rampTimeMs)} :
              /\ ~rrLog.arrived
                    => rrLog.step = DivLong(Abs(rr.targetValue - rrLog.from), samples)
              /\ rrLog.arrived => Abs(rrLog.calls * Scale - samples) < Scale

(***************************************************************************)
(* C26: in render(), audio frame n of a buffer is filtered by              *)
(* zdfFilter.process() with the cutoff, resonance, mode and drive that     *)
(* were computed for frame n in that same render() call: each parameter    *)
(* update takes effect on the process() call for its own frame.            *)
(***************************************************************************)
C26_FrameFilteredWithItsOwnParameters ==
    (unit = "render" /\ rdLog.op = "render")
        => \A n \in 1 .. audioFrames : rdLog.used[n] = rdLog.set[n]

=============================================================================
